---- MODULE Spec2Model ----
(***************************************************************************)
(* The page-based query engine of tax-finch: the queryParser middleware,   *)
(* the per-resource queryEngineConfig, and runQuery / applyFilters /       *)
(* applySorting / simplePaginate, executed against the users and orders    *)
(* tables (specification Spec); and the cursor helpers parseQueryParams,   *)
(* paginate, paginateQuery and paginateWithCursor, executed against the    *)
(* users table (specification SpecCursor).  Further specifications over    *)
(* the same state: UserService with its repository and entity (SpecUsers), *)
(* the methods of OrderEntity (SpecOrderEntity), OrderService with its     *)
(* repository (SpecOrders), the legacy runQuery (SpecLegacy), QueryBuilder *)
(* (SpecBuilder), and the shutdown of the server (SpecShutdown).           *)
(*                                                                         *)
(* Text is modelled as a sequence of atoms.  An atom is one character      *)
(* ("1", "-", ".", "j") or a word whose letters no operation of the        *)
(* engine looks into ("createdAt", "PENDING").  JavaScript numbers are     *)
(* records [nan, n, d] standing for NaN or for the rational n/d.           *)
(***************************************************************************)
EXTENDS Integers, Sequences, FiniteSets, TLC

(***************************************************************************)
(* Bounds of the model.                                                    *)
(***************************************************************************)
\* writes of other requests that commit while one paginated read is running
MaxWrites == 1
\* filter parameters (keys outside the reserved set) of one query string
MaxFilters == 2

(***************************************************************************)
(* Text.                                                                   *)
(***************************************************************************)
EmptyStr == << >>

\* the code-point order of the atoms that occur in sorted columns
AtomOrder ==
  << "%", "-", ".", "0", "1", "2", "3", "5", "6", "PENDING", "SHIPPED", "_",
     "a", "abc", "api", "b", "bar", "bogus", "createdAt", "id", "items", "j",
     "name", "o", "orders", "u", "users", "x", "y" >>

Code(a) == CHOOSE i \in 1..Len(AtomOrder) : AtomOrder[i] = a

RECURSIVE StrLess(_, _)
\* s sorts strictly before t (lexicographic, shorter prefix first)
StrLess(s, t) ==
  IF t = EmptyStr THEN FALSE
  ELSE IF s = EmptyStr THEN TRUE
  ELSE IF s[1] # t[1] THEN Code(s[1]) < Code(t[1])
  ELSE StrLess(Tail(s), Tail(t))

RECURSIVE LikeMatch(_, _)
\* SQL LIKE: "%" matches any run of atoms, "_" any one atom
LikeMatch(s, p) ==
  IF p = EmptyStr THEN s = EmptyStr
  ELSE IF p[1] = "%"
    THEN LikeMatch(s, Tail(p)) \/ (s # EmptyStr /\ LikeMatch(Tail(s), p))
  ELSE IF s = EmptyStr THEN FALSE
  ELSE IF p[1] = "_" THEN LikeMatch(Tail(s), Tail(p))
  ELSE s[1] = p[1] /\ LikeMatch(Tail(s), Tail(p))

(***************************************************************************)
(* JavaScript numbers.                                                     *)
(***************************************************************************)
NaN == [nan |-> TRUE, n |-> 0, d |-> 1]
Num(i) == [nan |-> FALSE, n |-> i, d |-> 1]

RECURSIVE Gcd(_, _)
Gcd(a, b) == IF b = 0 THEN a ELSE Gcd(b, a % b)

Abs(i) == IF i < 0 THEN -i ELSE i

\* the rational n/d in lowest terms
Ratio(n, d) ==
  LET g == Gcd(Abs(n), d)
  IN  [nan |-> FALSE, n |-> n \div g, d |-> d \div g]

IsInteger(x) == ~x.nan /\ x.d = 1
NumLess(x, y) == ~x.nan /\ ~y.nan /\ x.n * y.d < y.n * x.d
NumSub(x, y) ==
  IF x.nan \/ y.nan THEN NaN ELSE Ratio(x.n * y.d - y.n * x.d, x.d * y.d)
NumAdd(x, y) ==
  IF x.nan \/ y.nan THEN NaN ELSE Ratio(x.n * y.d + y.n * x.d, x.d * y.d)
NumMul(x, y) ==
  IF x.nan \/ y.nan THEN NaN ELSE Ratio(x.n * y.n, x.d * y.d)
\* Math.min: NaN when either argument is NaN
MathMin(x, y) ==
  IF x.nan \/ y.nan THEN NaN ELSE IF NumLess(y, x) THEN y ELSE x

Digits == << "0", "1", "2", "3", "4", "5", "6", "7", "8", "9" >>
IsDigit(a) == \E i \in 1..10 : Digits[i] = a
DigitVal(a) == (CHOOSE i \in 1..10 : Digits[i] = a) - 1

RECURSIVE AllDigits(_)
AllDigits(s) == s = EmptyStr \/ (IsDigit(s[1]) /\ AllDigits(Tail(s)))

RECURSIVE DigitsVal(_, _)
DigitsVal(s, acc) ==
  IF s = EmptyStr THEN acc ELSE DigitsVal(Tail(s), 10 * acc + DigitVal(s[1]))

RECURSIVE Pow10(_)
Pow10(k) == IF k = 0 THEN 1 ELSE 10 * Pow10(k - 1)

\* position of the first "." in s, 0 when there is none
DotPos(s) ==
  IF \E i \in 1..Len(s) : s[i] = "."
    THEN CHOOSE i \in 1..Len(s) :
           s[i] = "." /\ \A j \in 1..(i - 1) : s[j] # "."
    ELSE 0

\* Number(s) for an unsigned decimal literal s
UnsignedNumber(s) ==
  LET p == DotPos(s)
      ip == IF p = 0 THEN s ELSE SubSeq(s, 1, p - 1)
      fp == IF p = 0 THEN EmptyStr ELSE SubSeq(s, p + 1, Len(s))
  IN  IF ip = EmptyStr /\ fp = EmptyStr THEN NaN
      ELSE IF ~(AllDigits(ip) /\ AllDigits(fp)) THEN NaN
      ELSE Ratio(DigitsVal(ip, 0) * Pow10(Len(fp)) + DigitsVal(fp, 0),
                 Pow10(Len(fp)))

\* Number(s) of JavaScript on the texts the model uses: "" is 0, a signed
\* decimal literal is its value, anything else is NaN
Number(s) ==
  IF s = EmptyStr THEN Num(0)
  ELSE IF s[1] = "-"
    THEN LET u == UnsignedNumber(Tail(s))
         IN  IF u.nan THEN NaN ELSE Ratio(-u.n, u.d)
  ELSE UnsignedNumber(s)

(***************************************************************************)
(* queryEngineConfig: the defaults and the per-resource configuration.     *)
(* A sortConfig maps a field name to a column; a filterConfig maps a       *)
(* filter key to the column and the operator of its predicate.             *)
(***************************************************************************)
defaultLimit == 20
maxLimit == 100
defaultOrdering == << "-", "createdAt" >>

queryEngineConfig ==
  [ defaultLimit |-> defaultLimit,
    maxLimit |-> maxLimit,
    defaultOrdering |-> defaultOrdering,
    resources |->
      [ users |->
          [ sortConfig |->
              [ id |-> "id", name |-> "name", email |-> "email",
                createdAt |-> "createdAt", updatedAt |-> "updatedAt" ],
            filterConfig |->
              [ name |-> [field |-> "name", operator |-> "like"],
                email |-> [field |-> "email", operator |-> "like"] ],
            defaultOrdering |-> << "name" >> ],
        orders |->
          [ sortConfig |->
              [ id |-> "id", total |-> "total", status |-> "status",
                createdAt |-> "createdAt" ],
            filterConfig |->
              [ status |-> [field |-> "status", operator |-> "eq"],
                minTotal |-> [field |-> "total", operator |-> "gte"] ],
            defaultOrdering |-> << "-", "createdAt" >> ] ] ]

\* the value of a missing property and of an absent optional field
Undefined == [undefined |-> TRUE]

(***************************************************************************)
(* The tables.  Only the columns a sortConfig or filterConfig refers to    *)
(* are kept; timestamps and totals are integers.                           *)
(***************************************************************************)
NumericColumns == {"createdAt", "updatedAt", "total"}

UserRows ==
  { [id |-> <<"u", "1">>, name |-> <<"j", "o">>, email |-> <<"x">>,
     createdAt |-> 1, updatedAt |-> 1],
    [id |-> <<"u", "2">>, name |-> <<"b">>, email |-> <<"x">>,
     createdAt |-> 2, updatedAt |-> 2],
    [id |-> <<"u", "3">>, name |-> <<"j", "o">>, email |-> <<"y">>,
     createdAt |-> 2, updatedAt |-> 3] }

OrderRows ==
  { [id |-> <<"o", "1">>, status |-> <<"PENDING">>, total |-> 5,
     createdAt |-> 1],
    [id |-> <<"o", "2">>, status |-> <<"SHIPPED">>, total |-> 6,
     createdAt |-> 2] }

TableRows == [users |-> UserRows, orders |-> OrderRows]

(***************************************************************************)
(* The select builder of the ORM.  Every builder method assigns one        *)
(* clause of the builder it is called on and returns that same builder,    *)
(* so `query = query.where(p)` keeps the reference and replaces the        *)
(* clause.  `heap` maps a builder reference to its clauses.                *)
(***************************************************************************)
NoClause == << >>

\* db.select({...}).from(table)
NewBuilder(table) ==
  [table |-> table, where |-> NoClause, orderBy |-> NoClause,
   limit |-> NoClause, offset |-> NoClause]

\* query.where(pred): a second call replaces the predicate of the first
Where(h, ref, pred) ==
  [h EXCEPT ![ref].where = << pred >>]

\* query.orderBy(asc(column)) / query.orderBy(desc(column))
OrderBy(h, ref, column, direction) ==
  [h EXCEPT ![ref].orderBy = << [column |-> column, direction |-> direction] >>]

\* query.limit(n).offset(m)
LimitOffset(h, ref, n, m) ==
  [h EXCEPT ![ref].limit = << n >>, ![ref].offset = << m >>]

(***************************************************************************)
(* applyFilters: one where() per filter entry whose key is configured.     *)
(* `filters` is the entry list of the filters object, in property order.   *)
(***************************************************************************)
\* the predicate that a configured key builds from its value
FilterPredicate(config, value) ==
  CASE config.operator = "eq" ->
         [column |-> config.field, operator |-> "eq", operand |-> value]
    [] config.operator = "like" ->
         [column |-> config.field, operator |-> "like",
          operand |-> << "%" >> \o value \o << "%" >>]
    [] config.operator = "gte" ->
         [column |-> config.field, operator |-> "gte",
          operand |-> Number(value)]
    [] config.operator = "lte" ->
         [column |-> config.field, operator |-> "lte",
          operand |-> Number(value)]

KnownOperators == {"eq", "like", "gte", "lte"}

RECURSIVE applyFiltersFrom(_, _, _, _, _)
applyFiltersFrom(h, ref, filters, filterConfig, i) ==
  IF i > Len(filters) THEN h
  ELSE LET key == filters[i].key
           value == filters[i].value
       IN  IF key \in DOMAIN filterConfig
                /\ filterConfig[key].operator \in KnownOperators
             THEN applyFiltersFrom(
                    Where(h, ref, FilterPredicate(filterConfig[key], value)),
                    ref, filters, filterConfig, i + 1)
             ELSE applyFiltersFrom(h, ref, filters, filterConfig, i + 1)

\* a variant in which a key without configuration excludes every row
applyFiltersStrict(h, ref, filters, filterConfig) ==
  IF \E i \in 1..Len(filters) : filters[i].key \notin DOMAIN filterConfig
    THEN Where(h, ref,
               [column |-> "id", operator |-> "eq", operand |-> EmptyStr])
    ELSE applyFiltersFrom(h, ref, filters, filterConfig, 1)

applyFilters(h, ref, filters, filterConfig) ==
  applyFiltersFrom(h, ref, filters, filterConfig, 1)

(***************************************************************************)
(* applySorting: at most one orderBy().                                    *)
(***************************************************************************)
\* ordering || defaultOrdering, then the "-" prefix split
SortSpec(ordering, resourceDefault) ==
  LET orderBy == IF ordering # EmptyStr THEN ordering ELSE resourceDefault
  IN  IF orderBy # EmptyStr /\ orderBy[1] = "-"
        THEN [field |-> Tail(orderBy), direction |-> "desc"]
        ELSE [field |-> orderBy, direction |-> "asc"]

\* sortConfig[field] is defined
Sortable(sortConfig, field) ==
  Len(field) = 1 /\ field[1] \in DOMAIN sortConfig

applySorting(h, ref, ordering, sortConfig, resourceDefault) ==
  LET spec == SortSpec(ordering, resourceDefault)
  IN  IF Sortable(sortConfig, spec.field)
        THEN OrderBy(h, ref, sortConfig[spec.field[1]], spec.direction)
        ELSE h

(***************************************************************************)
(* The storage layer: what a select returns for the clauses of a builder.  *)
(***************************************************************************)
\* row satisfies the predicate; "textGt" and "textLt" compare a text
\* parameter, not a column, with the operand
Sat(row, pred) ==
  CASE pred.operator = "eq" -> row[pred.column] = pred.operand
    [] pred.operator = "like" -> LikeMatch(row[pred.column], pred.operand)
    [] pred.operator = "gte" ->
         ~pred.operand.nan /\ ~NumLess(Num(row[pred.column]), pred.operand)
    [] pred.operator = "lte" ->
         pred.operand.nan \/ ~NumLess(pred.operand, Num(row[pred.column]))
    [] pred.operator = "gt" -> StrLess(pred.operand, row[pred.column])
    [] pred.operator = "lt" -> StrLess(row[pred.column], pred.operand)
    [] pred.operator = "textGt" -> StrLess(pred.operand, pred.text)
    [] pred.operator = "textLt" -> StrLess(pred.text, pred.operand)

\* the rows of `rows` that satisfy every predicate of the where clause
Matching(rows, where) ==
  { r \in rows : \A i \in 1..Len(where) : Sat(r, where[i]) }

ColumnLess(column, a, b) ==
  IF column \in NumericColumns THEN a[column] < b[column]
  ELSE StrLess(a[column], b[column])

\* ORDER BY places a strictly before b
Before(orderBy, a, b) ==
  /\ orderBy # NoClause
  /\ IF orderBy[1].direction = "desc"
       THEN ColumnLess(orderBy[1].column, b, a)
       ELSE ColumnLess(orderBy[1].column, a, b)

\* every order in which the storage may return the rows: any order that
\* respects ORDER BY; rows that tie, and all rows without ORDER BY, come in
\* an order the storage chooses
SortedSeqs(rows, orderBy) ==
  { s \in [1..Cardinality(rows) -> rows] :
      /\ \A i, j \in 1..Cardinality(rows) : i # j => s[i] # s[j]
      /\ \A i, j \in 1..Cardinality(rows) :
           i < j => ~Before(orderBy, s[j], s[i]) }

Min(a, b) == IF a < b THEN a ELSE b

\* LIMIT n OFFSET m of a row sequence
Window(s, n, m) == SubSeq(s, m + 1, Min(Len(s), m + n))

\* How a limit value reaches the statement.  A non-negative integer is sent
\* as LIMIT; NaN and negative numbers are, depending on the ORM release,
\* left out of the statement or rejected by the database; a fraction is
\* rejected by the database.
LimitModes(n) ==
  IF IsInteger(n) /\ n.n >= 0 THEN {"apply"}
  ELSE IF n.nan \/ NumLess(n, Num(0)) THEN {"omit", "error"}
  ELSE {"error"}

OffsetModes(m) ==
  IF IsInteger(m) /\ m.n >= 0 THEN {"apply"}
  ELSE IF m.nan THEN {"omit", "error"}
  ELSE {"error"}

StorageError == [ok |-> FALSE, rows |-> << >>]

\* the possible outcomes of executing the builder's select on `rows`
SelectOutcomes(rows, q) ==
  LET matching == Matching(rows, q.where)
      lm == IF q.limit = NoClause THEN {"omit"} ELSE LimitModes(q.limit[1])
      om == IF q.offset = NoClause THEN {"omit"} ELSE OffsetModes(q.offset[1])
  IN  { StorageError : x \in { y \in {1} : "error" \in lm \/ "error" \in om } }
      \cup
      { [ok |-> TRUE,
         rows |-> Window(s,
                         IF l = "apply" THEN q.limit[1].n ELSE Len(s),
                         IF o = "apply" THEN q.offset[1].n ELSE 0)] :
          <<s, l, o>> \in SortedSeqs(matching, q.orderBy)
                          \X (lm \ {"error"}) \X (om \ {"error"}) }

\* a variant that takes the number of rows of the count result, which is
\* one, for the count
CountOutcomesResultLength(rows, q) ==
  { [ok |-> r.ok, count |-> IF r.ok THEN 1 ELSE 0] :
      r \in SelectOutcomes(rows, q) }

\* select count(*) from (<builder's statement>) as count_query
CountOutcomes(rows, q) ==
  { [ok |-> r.ok, count |-> Len(r.rows)] : r \in SelectOutcomes(rows, q) }

(***************************************************************************)
(* State.                                                                  *)
(***************************************************************************)
VARIABLES
  db,        \* the tables: db.users and db.orders are sets of rows
  mount,     \* the path prefix under which the routes are mounted
  pc,        \* "idle", "counted" (count done, page fetch pending), "done",
             \* "failed"
  req,       \* the request being served: path, params, table
  options,   \* the queryOptions that queryParser attached
  heap,      \* the select builders of the request, by reference
  countSql,  \* the statement that was counted
  total,     \* Number(countRows[0].count)
  envelope,  \* the value runQuery returned
  writes,    \* writes committed since the count of this request
  cpc,       \* cursor pagination: "idle", "paged" (a page was returned),
             \* "failed" (the call threw)
  call,      \* the last call of a cursor helper: the helper, the query
             \* string, the arguments, and whether the call followed the
             \* nextCursor of an earlier page
  stmt,      \* the select statement that call executed
  fetched,   \* the rows the storage returned to that call
  page,      \* the response that call returned
  trail,     \* the ids of the rows returned so far, page after page, by
             \* the traversal the call belongs to
  config,    \* the queryEngineConfig object of the process
  calls,     \* the storage calls runQuery made for the request, in order,
             \* each with its success
  thrown     \* the error with which findWithPagination rejected

\* the state of offset pagination and the state of cursor pagination
pageVars ==
  << db, mount, pc, req, options, heap, countSql, total, envelope, writes,
     config, calls, thrown >>
cursorVars == << cpc, call, stmt, fetched, page, trail >>

None == [none |-> TRUE]

VARIABLES
  users,     \* the users table as the user repository reads and writes it
  ucalls,    \* the calls of UserService in progress or finished, by call:
             \* the operation, its arguments, what the repository returned,
             \* the repository methods it invoked, and how it settled
  now,       \* the time `new Date()` returns
  orders,    \* the orders table as the order repository reads and writes it
  ocalls,    \* the calls of OrderService, by call, as ucalls
  entity,    \* an order entity in memory, as the last successful call of
             \* create, confirm or ship left it
  etrace,    \* the calls made on that entity, in order: the method, the
             \* receiver, and what the call threw or returned
  isShuttingDown,  \* the flag of the server entry point
  shutdownTimer,   \* the timer of gracefulShutdown: "unset", "armed",
                   \* "cleared" or "fired"
  spc,       \* where the one run of gracefulShutdown is: "idle",
             \* "disconnecting" (at its await), "closing" (returned, the
             \* callback of server.close pending), "closed", "returned"
  exitCode,  \* << >> while the process runs, << code >> after process.exit
  signals,   \* the signals delivered to the process, in order
  strace     \* what the shutdown sequence did, in order

\* the state of the query engine
engineVars == << pageVars, cursorVars >>

\* the state of the user service, of the order service, and of the order
\* entity
userVars == << users, ucalls >>
orderVars == << orders, ocalls >>
entityVars == << entity, etrace >>

\* the state of the server process and of its shutdown
shutdownVars ==
  << isShuttingDown, shutdownTimer, spc, exitCode, signals, strace >>

\* the state of the services, which the query engine never touches
serviceVars == << userVars, now, orderVars, entityVars, shutdownVars >>

\* what the user service, the order service and the calls on an order
\* entity leave alone
notUserVars == << engineVars, orderVars, entityVars, shutdownVars >>
notOrderVars == << engineVars, ucalls, entityVars, shutdownVars >>
notEntityVars == << engineVars, userVars, orderVars, shutdownVars >>
notShutdownVars == << engineVars, userVars, now, orderVars, entityVars >>

\* the query engine before any request
EngineIdle ==
  /\ db = [users |-> {}, orders |-> {}]
  /\ mount = << >>
  /\ pc = "idle"
  /\ req = None
  /\ options = None
  /\ heap = None
  /\ countSql = None
  /\ total = None
  /\ envelope = None
  /\ writes = 0
  /\ cpc = "idle"
  /\ call = None
  /\ stmt = None
  /\ fetched = None
  /\ page = None
  /\ trail = << >>
  /\ calls = << >>
  /\ thrown = None

\* the services before any call
UsersIdle == users = {} /\ ucalls = << >>
OrdersIdle == orders = {} /\ ocalls = << >>
EntityIdle == entity = None /\ etrace = << >>

\* the server process before any signal
ShutdownIdle ==
  /\ isShuttingDown = FALSE
  /\ shutdownTimer = "unset"
  /\ spc = "idle"
  /\ exitCode = << >>
  /\ signals = << >>
  /\ strace = << >>

ServicesIdle ==
  /\ UsersIdle
  /\ now = 0
  /\ OrdersIdle
  /\ EntityIdle
  /\ ShutdownIdle

vars ==
  << db, mount, pc, req, options, heap, countSql, total, envelope, writes,
     cpc, call, stmt, fetched, page, trail, config, calls, thrown,
     serviceVars >>

(***************************************************************************)
(* queryParser: from the request URL to the queryOptions.                  *)
(***************************************************************************)
ReservedKeys == {"from_page", "to_page", "limit", "ordering"}

\* url.searchParams.get(key): the first value of the key, or null
Get(params, key) ==
  IF \E i \in 1..Len(params) : params[i].key = key
    THEN LET i == CHOOSE i \in 1..Len(params) :
                    /\ params[i].key = key
                    /\ \A j \in 1..(i - 1) : params[j].key # key
         IN  [null |-> FALSE, value |-> params[i].value]
    ELSE [null |-> TRUE, value |-> EmptyStr]

\* filters[key] = value on the entry list of an object: a new key is
\* appended, a key already present keeps its place and takes the value
SetEntry(entries, key, value) ==
  IF \E i \in 1..Len(entries) : entries[i].key = key
    THEN [i \in 1..Len(entries) |->
            IF entries[i].key = key
              THEN [key |-> key, value |-> value] ELSE entries[i]]
    ELSE Append(entries, [key |-> key, value |-> value])

RECURSIVE FiltersFrom(_, _, _)
\* url.searchParams.forEach: every pair whose key is not reserved
FiltersFrom(params, i, acc) ==
  IF i > Len(params) THEN acc
  ELSE IF params[i].key \in ReservedKeys
    THEN FiltersFrom(params, i + 1, acc)
    ELSE FiltersFrom(params, i + 1,
                     SetEntry(acc, params[i].key, params[i].value))

\* c.req.path.split("/"): the text before the first "/" is empty
SplitPath(path) == << "" >> \o path

\* const [_, resource] = c.req.path.split("/"), then the lookup in
\* queryEngineConfig.resources
ResourceOf(path) ==
  IF Len(SplitPath(path)) >= 2 THEN SplitPath(path)[2] ELSE ""

ResourceConfigOf(resource) ==
  IF resource \in DOMAIN config.resources
    THEN config.resources[resource]
    ELSE Undefined

queryParser(path, params) ==
  LET fp == Get(params, "from_page")
      tp == Get(params, "to_page")
      lm == Get(params, "limit")
      og == Get(params, "ordering")
      fromPage == IF fp.null THEN Num(1) ELSE Number(fp.value)
      toPage == IF tp.null THEN fromPage ELSE Number(tp.value)
      limit == MathMin(IF lm.null THEN Num(config.defaultLimit)
                                  ELSE Number(lm.value),
                       Num(config.maxLimit))
      ordering == IF og.null THEN config.defaultOrdering
                             ELSE og.value
  IN  [ fromPage |-> fromPage,
        toPage |-> toPage,
        limit |-> limit,
        ordering |-> ordering,
        filters |-> FiltersFrom(params, 1, << >>),
        resourceConfig |-> ResourceConfigOf(ResourceOf(path)) ]

(***************************************************************************)
(* runQuery up to the count: both query variables hold the reference of    *)
(* the base builder, so the filters and the ordering land on one builder.  *)
(***************************************************************************)
BaseRef == 1

HasConfig(opts, part) ==
  /\ opts.resourceConfig # Undefined
  /\ part \in DOMAIN opts.resourceConfig

runQueryBuild(table, opts) ==
  LET queryForResults == BaseRef
      queryForCount == BaseRef
      h0 == [r \in {BaseRef} |-> NewBuilder(table)]
      h1 == IF HasConfig(opts, "filterConfig")
              THEN applyFilters(h0, queryForResults, opts.filters,
                                opts.resourceConfig.filterConfig)
              ELSE h0
      h2 == IF HasConfig(opts, "filterConfig")
              THEN applyFilters(h1, queryForCount, opts.filters,
                                opts.resourceConfig.filterConfig)
              ELSE h1
  IN  IF HasConfig(opts, "sortConfig")
        THEN applySorting(h2, queryForResults, opts.ordering,
                          opts.resourceConfig.sortConfig,
                          opts.resourceConfig.defaultOrdering)
        ELSE h2

\* countQuery.as("count_query"): the statement of the builder as it is now
\* a variant that counts the unfiltered base query
SubqueryUnfiltered(h, ref) == [h[ref] EXCEPT !.where = NoClause]

Subquery(h, ref) == h[ref]

\* offset = (fromPage - 1) * limit
OffsetOf(fromPage, limit) == NumMul(NumSub(fromPage, Num(1)), limit)

(***************************************************************************)
(* The requests the model sends.                                           *)
(***************************************************************************)
\* the resources whose repository paginates with runQuery
Routes == {"users", "orders"}

\* where the routes are mounted: at "/api" by the server entry point, at
\* "/" in the set-up the query engine guide describes
Mounts == { << >>, << "api" >> }

Pair(k, v) == [key |-> k, value |-> v]
Opt(key, texts) == { << >> } \cup { << Pair(key, t) >> : t \in texts }

FromPageTexts == { <<"2">>, <<"0">>, <<"-", "1">>, <<"abc">>, <<"1", ".", "5">> }
ToPageTexts == { <<"1">> }
LimitTexts ==
  { <<"1">>, <<"2">>, <<"0">>, <<"-", "1">>, <<"abc">>, <<"1", ".", "5">>,
    <<"1", "0", "1">> }
OrderingTexts ==
  { EmptyStr, <<"name">>, <<"-", "createdAt">>, <<"bogus">> }

FilterPool(route) ==
  IF route = "users"
    THEN { Pair("name", <<"j", "o">>), Pair("email", <<"x">>),
           Pair("foo", <<"bar">>) }
    ELSE { Pair("status", <<"PENDING">>), Pair("minTotal", <<"6">>),
           Pair("foo", <<"bar">>) }

\* the lists of at most MaxFilters different filter parameters
FilterSeqs(route) ==
  UNION { { f \in [1..n -> FilterPool(route)] :
              \A i, j \in 1..n : i # j => f[i] # f[j] } : n \in 0..MaxFilters }

\* query strings that vary the pagination window alone
WindowParams ==
  { a \o b : a \in Opt("from_page", FromPageTexts),
             b \in Opt("to_page", ToPageTexts) }
  \cup Opt("limit", LimitTexts)

\* query strings that vary ordering and filters on a few windows
SmallWindows ==
  { << >>, << Pair("limit", <<"1">>) >>,
    << Pair("from_page", <<"2">>), Pair("limit", <<"1">>) >> }

QueryParams(route) ==
  WindowParams
  \cup { w \o o \o f : w \in SmallWindows,
                       o \in Opt("ordering", OrderingTexts),
                       f \in FilterSeqs(route) }

Init ==
  /\ db \in [users : SUBSET UserRows, orders : SUBSET OrderRows]
  /\ mount \in Mounts
  /\ pc = "idle"
  /\ req = None
  /\ options = None
  /\ heap = None
  /\ countSql = None
  /\ total = None
  /\ envelope = None
  /\ writes = 0
  /\ cpc = "idle"
  /\ call = None
  /\ stmt = None
  /\ fetched = None
  /\ page = None
  /\ trail = << >>
  /\ config = queryEngineConfig
  /\ calls = << >>
  /\ thrown = None
  /\ ServicesIdle

(***************************************************************************)
(* GET <mount>/<route>?<params>: queryParser, the controller, the          *)
(* repository's base query, and runQuery up to and including the count.    *)
(* The limit and the offset are set on the results builder once the count  *)
(* has returned.                                                           *)
(***************************************************************************)
\* the error a failed storage call rejects with
StorageFailure(during) == [storage |-> during]

\* a variant in which the parser stores the ordering of the request as the
\* default ordering of the resource
RequestStoringOrdering(route, params) ==
  /\ pc = "idle"
  /\ LET path == mount \o << route >>
         opts == queryParser(path, params)
         h == runQueryBuild(route, opts)
         resultsQuery == BaseRef
         countQuery == BaseRef
         counted == Subquery(h, countQuery)
     IN  \E c \in CountOutcomes(db[route], counted) :
           /\ c.ok
           /\ req' = [path |-> path, params |-> params, table |-> route]
           /\ options' = opts
           /\ countSql' = counted
           /\ total' = Num(c.count)
           /\ heap' = LimitOffset(h, resultsQuery, opts.limit,
                                 OffsetOf(opts.fromPage, opts.limit))
           /\ config' = IF opts.resourceConfig # Undefined
                          THEN [config EXCEPT
                                  !.resources[ResourceOf(path)]
                                     .defaultOrdering = opts.ordering]
                          ELSE config
  /\ pc' = "counted"
  /\ writes' = 0
  /\ calls' = << [call |-> "count", error |-> None] >>
  /\ UNCHANGED << db, mount, envelope, thrown >>
  /\ UNCHANGED << cursorVars, serviceVars >>

Request(route, params) ==
  /\ pc = "idle"
  /\ LET path == mount \o << route >>
         opts == queryParser(path, params)
         h == runQueryBuild(route, opts)
         resultsQuery == BaseRef
         countQuery == BaseRef
         counted == Subquery(h, countQuery)
     IN  \E c \in CountOutcomes(db[route], counted) :
           /\ c.ok
           /\ req' = [path |-> path, params |-> params, table |-> route]
           /\ options' = opts
           /\ countSql' = counted
           /\ total' = Num(c.count)
           /\ heap' = LimitOffset(h, resultsQuery, opts.limit,
                                 OffsetOf(opts.fromPage, opts.limit))
  /\ pc' = "counted"
  /\ writes' = 0
  /\ calls' = << [call |-> "count", error |-> None] >>
  /\ UNCHANGED << db, mount, envelope, config, thrown >>
  /\ UNCHANGED << cursorVars, serviceVars >>

\* the same request when the storage fails the count (connection loss,
\* query error): the await in simplePaginate rejects, and neither runQuery
\* nor the repository catches
CountFails(route, params) ==
  /\ pc = "idle"
  /\ LET path == mount \o << route >>
         opts == queryParser(path, params)
         h == runQueryBuild(route, opts)
         countQuery == BaseRef
     IN  /\ req' = [path |-> path, params |-> params, table |-> route]
         /\ options' = opts
         /\ countSql' = Subquery(h, countQuery)
         /\ heap' = h
  /\ pc' = "failed"
  /\ writes' = 0
  /\ calls' = << [call |-> "count", error |-> StorageFailure("count")] >>
  /\ thrown' = StorageFailure("count")
  /\ UNCHANGED << db, mount, total, envelope, config >>
  /\ UNCHANGED << cursorVars, serviceVars >>

(***************************************************************************)
(* The rest of simplePaginate: the page fetch and the envelope.            *)
(***************************************************************************)
\* a variant that derives hasPrevPage from the page having a first row
EnvelopePrevByFirstRow(results, opts, tot) ==
  LET offset == OffsetOf(opts.fromPage, opts.limit)
  IN  [ data |-> results,
        pagination |->
          [ fromPage |-> opts.fromPage,
            toPage |-> opts.toPage,
            limit |-> opts.limit,
            total |-> tot,
            hasNextPage |-> NumLess(NumAdd(offset, Num(Len(results))), tot),
            hasPrevPage |-> Len(results) > 0 ] ]

\* a variant whose hasNextPage compares with <= instead of <
EnvelopeNextInclusive(results, opts, tot) ==
  LET offset == OffsetOf(opts.fromPage, opts.limit)
      shown == NumAdd(offset, Num(Len(results)))
  IN  [ data |-> results,
        pagination |->
          [ fromPage |-> opts.fromPage,
            toPage |-> opts.toPage,
            limit |-> opts.limit,
            total |-> tot,
            hasNextPage |-> NumLess(shown, tot) \/ shown = tot,
            hasPrevPage |-> NumLess(Num(1), opts.fromPage) ] ]

Envelope(results, opts, tot) ==
  LET offset == OffsetOf(opts.fromPage, opts.limit)
  IN  [ data |-> results,
        pagination |->
          [ fromPage |-> opts.fromPage,
            toPage |-> opts.toPage,
            limit |-> opts.limit,
            total |-> tot,
            hasNextPage |-> NumLess(NumAdd(offset, Num(Len(results))), tot),
            hasPrevPage |-> NumLess(Num(1), opts.fromPage) ] ]

Fetch ==
  /\ pc = "counted"
  /\ \E r \in SelectOutcomes(db[req.table], heap[BaseRef]) :
       /\ r.ok
       /\ envelope' = Envelope(r.rows, options, total)
  /\ pc' = "done"
  /\ calls' = Append(calls, [call |-> "fetch", error |-> None])
  /\ UNCHANGED << db, mount, req, options, heap, countSql, total, writes,
                  config, thrown >>
  /\ UNCHANGED << cursorVars, serviceVars >>

\* a variant that answers a failed page fetch with an empty page
FetchFailsMasked ==
  /\ pc = "counted"
  /\ pc' = "done"
  /\ envelope' = Envelope(<< >>, options, total)
  /\ calls' = Append(calls,
                     [call |-> "fetch", error |-> StorageFailure("fetch")])
  /\ UNCHANGED << db, mount, req, options, heap, countSql, total, writes,
                  config, thrown >>
  /\ UNCHANGED << cursorVars, serviceVars >>

\* the storage fails the page fetch (connection loss, or a statement the
\* database rejects): the await rejects and runQuery throws
FetchFails ==
  /\ pc = "counted"
  /\ pc' = "failed"
  /\ calls' = Append(calls,
                     [call |-> "fetch", error |-> StorageFailure("fetch")])
  /\ thrown' = StorageFailure("fetch")
  /\ UNCHANGED << db, mount, req, options, heap, countSql, total, envelope,
                  writes, config >>
  /\ UNCHANGED << cursorVars, serviceVars >>

(***************************************************************************)
(* Another request commits an insert or a delete between the count and     *)
(* the page fetch.  (A write while no read is running leads to a state     *)
(* that Init already contains.)                                            *)
(***************************************************************************)
DbWrite(table, row) ==
  /\ pc = "counted"
  /\ writes < MaxWrites
  /\ db' = [db EXCEPT ![table] =
              IF row \in @ THEN @ \ {row} ELSE @ \cup {row}]
  /\ writes' = writes + 1
  /\ UNCHANGED << mount, pc, req, options, heap, countSql, total, envelope,
                  config, calls, thrown >>
  /\ UNCHANGED << cursorVars, serviceVars >>

\* the response is sent; the request's values are dropped
Respond ==
  /\ pc \in {"done", "failed"}
  /\ pc' = "idle"
  /\ req' = None
  /\ options' = None
  /\ heap' = None
  /\ countSql' = None
  /\ total' = None
  /\ envelope' = None
  /\ writes' = 0
  /\ calls' = << >>
  /\ thrown' = None
  /\ UNCHANGED << db, mount, config >>
  /\ UNCHANGED << cursorVars, serviceVars >>

Next ==
  \/ \E route \in Routes : \E params \in QueryParams(route) :
       Request(route, params)
  \/ \E route \in Routes : \E params \in QueryParams(route) :
       CountFails(route, params)
  \/ Fetch
  \/ FetchFails
  \/ \E table \in Routes : \E row \in TableRows[table] : DbWrite(table, row)
  \/ Respond

Spec == Init /\ [][Next]_vars

(***************************************************************************)
(* Vocabulary of the properties.                                           *)
(***************************************************************************)
Served == pc \in {"counted", "done", "failed"}
Returned == pc = "done"

\* the filter entries of the request whose key the resource configures
ConfiguredEntries(opts) ==
  IF HasConfig(opts, "filterConfig")
    THEN SelectSeq(opts.filters,
                   LAMBDA e : e.key \in DOMAIN opts.resourceConfig.filterConfig)
    ELSE << >>

\* the rows that satisfy the predicate of every configured filter entry
MatchingAll(rows, opts) ==
  LET es == ConfiguredEntries(opts)
  IN  { r \in rows :
          \A i \in 1..Len(es) :
            Sat(r, FilterPredicate(
                     opts.resourceConfig.filterConfig[es[i].key],
                     es[i].value)) }

\* a window the specification calls valid: fromPage >= 1, limit in [1,100]
ValidWindow(opts) ==
  /\ IsInteger(opts.fromPage) /\ opts.fromPage.n >= 1
  /\ IsInteger(opts.limit) /\ opts.limit.n >= 1 /\ opts.limit.n <= maxLimit

\* C1: runQuery returns as data the rows at positions [offset, offset+limit)
\* of the rows that satisfy ALL predicates of the configured filter keys of
\* the request, sorted by the ordering the query carries.
C1_DataIsPageOfAllPredicates ==
  (Returned /\ writes = 0 /\ ValidWindow(options)
     /\ options.resourceConfig # Undefined)
  => \E s \in SortedSeqs(MatchingAll(db[req.table], options),
                         heap[BaseRef].orderBy) :
       envelope.data =
         Window(s, options.limit.n,
                OffsetOf(options.fromPage, options.limit).n)

\* C2: hasNextPage equals offset + len(data) < total and, the dataset being
\* unchanged during the request, is true iff a row matching the filters
\* lies strictly beyond the returned page.
C2_HasNextPageIffRowsBeyond ==
  (Returned /\ writes = 0 /\ ValidWindow(options))
  => LET offset == OffsetOf(options.fromPage, options.limit).n
         shown == offset + Len(envelope.data)
     IN  /\ envelope.pagination.hasNextPage
             = (shown < envelope.pagination.total.n)
         /\ envelope.pagination.hasNextPage
             = (Cardinality(MatchingAll(db[req.table], options)) > shown)

\* C3: total is the number of all rows matching the request's filters,
\* whatever the pagination window is.
C3_TotalCountsAllMatching ==
  (pc \in {"counted", "done"} /\ writes = 0)
  => total = Num(Cardinality(MatchingAll(db[req.table], options)))

\* C4: the counted statement and the page statement carry the identical
\* filter predicates (none when the resource has no filterConfig), so they
\* select the same rows of any table content.
C4_CountAndDataSamePredicates ==
  pc \in {"counted", "done"}
  => /\ countSql.where = heap[BaseRef].where
     /\ countSql.table = heap[BaseRef].table
     /\ (~HasConfig(options, "filterConfig") => countSql.where = NoClause)
     /\ \A rows \in SUBSET TableRows[req.table] :
          Matching(rows, countSql.where) = Matching(rows, heap[BaseRef].where)

\* a served request whose count and page statements carry a predicate
C4_Witness ==
  /\ Returned
  /\ countSql.where # NoClause
  /\ Len(envelope.data) > 0
  /\ Cardinality(db[req.table]) > Len(envelope.data)

\* C5: the limit stored in queryOptions is an integer in [1,100] for every
\* value of the limit parameter.
C5_LimitInRange ==
  Served
  => /\ IsInteger(options.limit)
     /\ options.limit.n >= 1
     /\ options.limit.n <= maxLimit
     /\ (Get(req.params, "limit").null => options.limit = Num(defaultLimit))

\* C6: the stored fromPage is an integer >= 1, toPage >= fromPage, and the
\* offset of runQuery is never negative.
C6_PagesAtLeastOne ==
  Served
  => /\ IsInteger(options.fromPage) /\ options.fromPage.n >= 1
     /\ ~NumLess(options.toPage, options.fromPage) /\ ~options.toPage.nan
     /\ ~NumLess(OffsetOf(options.fromPage, options.limit), Num(0))
     /\ ~OffsetOf(options.fromPage, options.limit).nan

\* the key of a filter entry is absent from the resource's filterConfig
UnknownKey(opts, key) ==
  ~HasConfig(opts, "filterConfig")
    \/ key \notin DOMAIN opts.resourceConfig.filterConfig

\* the options of the same request without its i-th filter entry
WithoutEntry(opts, i) ==
  [opts EXCEPT !.filters =
     SubSeq(opts.filters, 1, i - 1)
       \o SubSeq(opts.filters, i + 1, Len(opts.filters))]

\* the envelopes runQuery can return for the options on the given rows
EnvelopesOf(rows, table, opts) ==
  LET h == runQueryBuild(table, opts)
      paged == LimitOffset(h, BaseRef, opts.limit,
                           OffsetOf(opts.fromPage, opts.limit))
  IN  { Envelope(r.rows, opts, Num(c.count)) :
          <<r, c>> \in { x \in SelectOutcomes(rows, paged[BaseRef])
                                 \X CountOutcomes(rows, Subquery(h, BaseRef)) :
                           x[1].ok /\ x[2].ok } }

\* C7: a filter key that is absent from the filterConfig adds no predicate
\* and raises no error: the request builds the statements, and returns the
\* envelope, of the same request with that key removed.
C7_UnknownFilterKeyIsNoOp ==
  pc \in {"counted", "done"}
  => \A i \in 1..Len(options.filters) :
       UnknownKey(options, options.filters[i].key)
       => LET o2 == WithoutEntry(options, i)
              h2 == runQueryBuild(req.table, o2)
          IN  /\ countSql = Subquery(h2, BaseRef)
              /\ heap = LimitOffset(h2, BaseRef, o2.limit,
                                    OffsetOf(o2.fromPage, o2.limit))
              /\ (Returned /\ writes = 0)
                   => envelope \in EnvelopesOf(db[req.table], req.table, o2)

\* a returned page of a request that carries a configured key and a key
\* the filterConfig does not have
C7_Witness ==
  /\ Returned
  /\ HasConfig(options, "filterConfig")
  /\ \E i \in 1..Len(options.filters) :
       UnknownKey(options, options.filters[i].key)
  /\ heap[BaseRef].where # NoClause
  /\ Len(envelope.data) > 0

\* the ordering the specification resolves for an unknown field: the
\* resource's defaultOrdering
DefaultOrderBy(resourceConfig) ==
  LET spec == SortSpec(EmptyStr, resourceConfig.defaultOrdering)
  IN  << [column |-> resourceConfig.sortConfig[spec.field[1]],
          direction |-> spec.direction] >>

\* C8: when `ordering` names a field that is not in the sortConfig, the
\* rows are ordered by the resource's defaultOrdering.
C8_UnknownSortFieldFallsBack ==
  (pc \in {"counted", "done"} /\ HasConfig(options, "sortConfig")
     /\ ~Sortable(options.resourceConfig.sortConfig,
                  SortSpec(options.ordering,
                           options.resourceConfig.defaultOrdering).field))
  => heap[BaseRef].orderBy = DefaultOrderBy(options.resourceConfig)

\* C9: a request without `ordering` parameter is ordered by the
\* defaultOrdering of its resource.
C9_AbsentOrderingUsesResourceDefault ==
  (pc \in {"counted", "done"} /\ Get(req.params, "ordering").null
     /\ HasConfig(options, "sortConfig"))
  => heap[BaseRef].orderBy
       = DefaultOrderBy(queryEngineConfig.resources[req.table])

\* C10: for a request to /api/users or /api/orders queryParser attaches the
\* resourceConfig registered for users respectively orders.
C10_ApiPathGetsResourceConfig ==
  (Served /\ Len(req.path) = 2 /\ req.path[1] = "api")
  => options.resourceConfig = queryEngineConfig.resources[req.path[2]]


\* C11: hasPrevPage is true iff fromPage > 1, whatever the dataset, the
\* filters, the limit and the rows of the page are.
C11_HasPrevPageIffFromPageAboveOne ==
  Returned
  => (envelope.pagination.hasPrevPage
        <=> (/\ ~ options.fromPage.nan
             /\ options.fromPage.n > options.fromPage.d))

\* a page after the first was returned without rows, and says hasPrevPage
C11_Witness ==
  /\ Returned
  /\ ~ options.fromPage.nan
  /\ options.fromPage.n > options.fromPage.d
  /\ envelope.data = << >>
  /\ envelope.pagination.hasPrevPage


\* (fromPage - 1) * limit is a number and is at least k
SkipsAtLeast(opts, k) ==
  LET skipped == NumMul(NumSub(opts.fromPage, Num(1)), opts.limit)
  IN  ~ skipped.nan /\ ~ NumLess(skipped, Num(k))

RECURSIVE DigitPrefix(_)
\* the longest prefix of s made of digits
DigitPrefix(s) ==
  IF s # EmptyStr /\ IsDigit(s[1])
    THEN << s[1] >> \o DigitPrefix(Tail(s))
    ELSE EmptyStr

\* parseInt(s, 10): an optional sign and the digits that follow it; NaN
\* when no digit follows
parseInt(s) ==
  LET negative == s # EmptyStr /\ s[1] = "-"
      digits == DigitPrefix(IF negative THEN Tail(s) ELSE s)
  IN  IF digits = EmptyStr THEN NaN
      ELSE Num(IF negative THEN -DigitsVal(digits, 0)
                           ELSE DigitsVal(digits, 0))

\* Math.max: NaN when either argument is NaN
MathMax(x, y) ==
  IF x.nan \/ y.nan THEN NaN ELSE IF NumLess(x, y) THEN y ELSE x

\* String.prototype.toLowerCase on the texts the model uses
ToLowerCase(s) ==
  [i \in 1..Len(s) |->
     CASE s[i] = "DESC" -> "desc"
       [] s[i] = "A" -> "a"
       [] s[i] = "I" -> "i"
       [] OTHER -> s[i]]

RECURSIVE DecimalText(_)
\* String(n) of a non-negative integer
DecimalText(n) ==
  IF n < 10 THEN << Digits[n + 1] >>
  ELSE DecimalText(n \div 10) \o << Digits[(n % 10) + 1] >>

\* String(row[key]); a row has no property of that name: "undefined"
StringOfProperty(row, key) ==
  IF key \notin DOMAIN row THEN << "undefined" >>
  ELSE IF key \in NumericColumns THEN DecimalText(row[key])
  ELSE row[key]

\* an optional text: null/undefined, or a value
Null == [null |-> TRUE, value |-> EmptyStr]
Text(v) == [null |-> FALSE, value |-> v]

\* x || undefined, x || "10": an absent and an empty text are both falsy
Truthy(got) == ~got.null /\ got.value # EmptyStr

CursorReservedKeys == {"limit", "cursor", "sortBy", "order"}

RECURSIVE CursorFiltersFrom(_, _, _)
\* for (const [key, value] of query.entries()): every pair with a key that
\* is not reserved and a non-empty value; a numeric text becomes a number
CursorFiltersFrom(query, i, acc) ==
  IF i > Len(query) THEN acc
  ELSE IF query[i].key \notin CursorReservedKeys /\ query[i].value # EmptyStr
    THEN CursorFiltersFrom(
           query, i + 1,
           SetEntry(acc, query[i].key,
                    IF Number(query[i].value).nan
                      THEN [type |-> "string", text |-> query[i].value]
                      ELSE [type |-> "number",
                            number |-> Number(query[i].value)]))
    ELSE CursorFiltersFrom(query, i + 1, acc)

parseQueryParams(query) ==
  LET lm == Get(query, "limit")
      limit == MathMin(
                 MathMax(parseInt(IF Truthy(lm) THEN lm.value
                                                ELSE << "1", "0" >>),
                         Num(1)),
                 Num(100))
      cursor == IF Truthy(Get(query, "cursor"))
                  THEN Get(query, "cursor") ELSE Null
      sortField == Get(query, "sortBy")
      order == Get(query, "order")
      sortOrder == IF ~order.null /\ ToLowerCase(order.value) = << "desc" >>
                     THEN "desc" ELSE "asc"
      sort == IF Truthy(sortField)
                THEN [field |-> sortField.value, order |-> sortOrder]
                ELSE Undefined
  IN  [ limit |-> limit, cursor |-> cursor, sort |-> sort,
        filters |-> CursorFiltersFrom(query, 1, << >>) ]


\* results.slice(0, limit) for a limit that is a number
Slice(rows, limit) ==
  SubSeq(rows, 1, Min(Len(rows), limit.n \div limit.d))

Reverse(rows) == [i \in 1..Len(rows) |-> rows[Len(rows) + 1 - i]]

buildPaginatedResponse(data, limit, cursorField, hasMore, direction) ==
  LET firstRow == IF data = << >> THEN Undefined ELSE data[1]
      lastRow == IF data = << >> THEN Undefined ELSE data[Len(data)]
      nextCursor ==
        IF hasMore /\ direction = "forward" /\ lastRow # Undefined
          THEN Text(StringOfProperty(lastRow, cursorField)) ELSE Null
      prevCursor ==
        IF direction = "backward"
          THEN IF hasMore /\ firstRow # Undefined
                 THEN Text(StringOfProperty(firstRow, cursorField)) ELSE Null
          ELSE IF firstRow # Undefined
                 THEN Text(StringOfProperty(firstRow, cursorField)) ELSE Null
  IN  [ data |-> data,
        pagination |->
          [ limit |-> limit,
            nextCursor |-> nextCursor,
            prevCursor |-> prevCursor,
            hasNextPage |-> IF direction = "forward" THEN hasMore ELSE TRUE,
            hasPrevPage |-> IF direction = "backward"
                              THEN hasMore ELSE firstRow # Undefined ] ]

\* the where conditions that paginate builds from the filters
FilterConditions(filters) ==
  [ i \in 1..Len(filters) |->
      IF filters[i].value.type = "string"
        THEN [column |-> filters[i].key, operator |-> "like",
              operand |-> << "%" >> \o filters[i].value.text \o << "%" >>]
        ELSE [column |-> filters[i].key, operator |-> "eq",
              operand |-> filters[i].value.number.n] ]

\* the statement paginate executes: the filters and the cursor condition
\* joined by AND, the ORDER BY, and LIMIT limit + 1
paginateStatement(table, cursorField, opts) ==
  LET sortOrder == IF opts.sort # Undefined
                     THEN opts.sort.order ELSE "asc"
      cursorCondition ==
        IF opts.cursor.null THEN << >>
        ELSE << [column |-> cursorField,
                 operator |-> IF sortOrder = "desc" THEN "lt" ELSE "gt",
                 operand |-> opts.cursor.value] >>
      orderByField == IF opts.sort # Undefined
                        THEN opts.sort.field[1] ELSE cursorField
  IN  [ table |-> table,
        where |-> FilterConditions(opts.filters) \o cursorCondition,
        orderBy |-> << [column |-> orderByField, direction |-> sortOrder] >>,
        limit |-> << NumAdd(opts.limit, Num(1)) >>,
        offset |-> NoClause ]

\* the outcome of a call: the statement, and either the rows fetched and
\* the response, or the failure of the storage
Thrown(q) ==
  [ok |-> FALSE, stmt |-> q, fetched |-> << >>, response |-> None]

paginate(rows, table, cursorField, opts) ==
  LET q == paginateStatement(table, cursorField, opts)
  IN  { IF r.ok
          THEN LET hasMore == NumLess(opts.limit, Num(Len(r.rows)))
                   data == IF hasMore THEN Slice(r.rows, opts.limit)
                                      ELSE r.rows
               IN  [ ok |-> TRUE, stmt |-> q, fetched |-> r.rows,
                     response |->
                       buildPaginatedResponse(data, opts.limit,
                                              cursorField, hasMore,
                                              "forward") ]
          ELSE Thrown(q) :
        r \in SelectOutcomes(rows, q) }


\* paginateQuery (and simplePaginate, the same statements on baseQuery) of
\* simpleRelationshipHelper.  The cursor condition interpolates the name of
\* the cursor field as a parameter, and where() replaces the predicate the
\* caller's query carried.
paginateQuery(rows, query, opts, cursorField) ==
  LET sortOrder == IF opts.sort # Undefined THEN opts.sort.order ELSE "desc"
      conditioned ==
        IF opts.cursor.null THEN query
        ELSE Where(<< query >>, 1,
                   [text |-> << cursorField >>,
                    operator |-> IF sortOrder = "desc"
                                   THEN "textLt" ELSE "textGt",
                    operand |-> opts.cursor.value])[1]
      q == [conditioned EXCEPT !.limit = << NumAdd(opts.limit, Num(1)) >>]
  IN  { IF r.ok
          THEN LET hasMore == NumLess(opts.limit, Num(Len(r.rows)))
                   data == IF hasMore THEN Slice(r.rows, opts.limit)
                                      ELSE r.rows
               IN  [ ok |-> TRUE, stmt |-> q, fetched |-> r.rows,
                     response |->
                       [ data |-> data,
                         pagination |->
                           [ limit |-> opts.limit,
                             nextCursor |->
                               IF hasMore /\ Len(data) > 0
                                 THEN Text(data[Len(data)][cursorField])
                                 ELSE Null,
                             prevCursor |->
                               IF Len(data) > 0
                                 THEN Text(data[1][cursorField]) ELSE Null,
                             hasNextPage |-> hasMore,
                             hasPrevPage |-> ~ opts.cursor.null ] ] ]
          ELSE Thrown(q) :
        r \in SelectOutcomes(rows, q) }

\* Column.name: the name of the column in the database
ColumnName ==
  [ id |-> "id", email |-> "email", name |-> "name",
    createdAt |-> "created_at", updatedAt |-> "updated_at" ]

\* paginateWithCursor; cursorColumn is given by its property of the table
paginateWithCursor(rows, table, cursorColumn, cursor, limit, direction) ==
  LET safeLimit == IF ~ limit.nan /\ NumLess(Num(0), limit)
                     THEN MathMin(limit, Num(200)) ELSE Num(20)
      comparator ==
        IF cursor.null THEN << >>
        ELSE << [column |-> cursorColumn,
                 operator |-> IF direction = "forward" THEN "gt" ELSE "lt",
                 operand |-> cursor.value] >>
      q == [ table |-> table,
             where |-> comparator,
             orderBy |-> << [column |-> cursorColumn,
                             direction |-> IF direction = "forward"
                                             THEN "asc" ELSE "desc"] >>,
             limit |-> << NumAdd(safeLimit, Num(1)) >>,
             offset |-> NoClause ]
  IN  { IF r.ok
          THEN LET hasMore == NumLess(safeLimit, Num(Len(r.rows)))
                   kept == IF hasMore THEN Slice(r.rows, safeLimit)
                                      ELSE r.rows
                   data == IF direction = "backward" THEN Reverse(kept)
                                                     ELSE kept
                   key == ColumnName[cursorColumn]
               IN  [ ok |-> TRUE, stmt |-> q, fetched |-> r.rows,
                     response |->
                       [ data |-> data,
                         limit |-> safeLimit,
                         nextCursor |->
                           IF hasMore /\ direction = "forward"
                             THEN Text(StringOfProperty(data[Len(data)], key))
                             ELSE Null,
                         prevCursor |->
                           IF direction = "backward"
                             THEN IF hasMore
                                    THEN Text(StringOfProperty(data[1], key))
                                    ELSE Null
                             ELSE IF data # << >>
                                    THEN Text(StringOfProperty(data[1], key))
                                    ELSE Null,
                         hasNextPage |-> IF direction = "forward"
                                           THEN hasMore ELSE TRUE,
                         hasPrevPage |-> IF direction = "backward"
                                           THEN hasMore
                                           ELSE ~ cursor.null ] ]
          ELSE Thrown(q) :
        r \in SelectOutcomes(rows, q) }


(***************************************************************************)
(* The calls of the cursor helpers, on the users table.                    *)
(***************************************************************************)
\* rows a traversal may return before the model stops following it
MaxTrail == 4

CursorLimitTexts ==
  { <<"1">>, <<"2">>, <<"0">>, <<"-", "1">>, <<"abc">>, <<"1", ".", "5">>,
    <<"1", "5", "0">>, EmptyStr }

\* query strings that vary the limit alone
CursorLimitQueries == Opt("limit", CursorLimitTexts)

\* query strings that vary the cursor, the sorting and the filter
CursorQueries ==
  CursorLimitQueries
  \cup { l \o c \o f \o o \o b :
           l \in Opt("limit", { <<"1">>, <<"2">> }),
           c \in Opt("cursor", { <<"u", "1">> }),
           f \in Opt("sortBy", { <<"id">>, <<"name">> }),
           o \in Opt("order", { <<"desc">>, <<"DESC">> }),
           b \in { << >>, << Pair("name", <<"j", "o">>) >>,
                   << Pair("createdAt", <<"2">>) >> } }

\* the limit arguments of paginateWithCursor
CursorLimits ==
  { Num(1), Num(2), Num(0), Num(-1), NaN, Ratio(3, 2), Num(300) }

\* the cursor column and cursor arguments of paginateWithCursor
CursorArguments ==
  { << "id", Null >>, << "id", Text(<< "u", "1" >>) >>,
    << "id", Text(<< "u", "3" >>) >>, << "createdAt", Null >> }

\* the queries a repository hands to paginateQuery
BaseQueries ==
  { NewBuilder("users"),
    OrderBy(<< NewBuilder("users") >>, 1, "id", "desc")[1],
    Where(<< NewBuilder("users") >>, 1,
          [column |-> "name", operator |-> "eq", operand |-> <<"b">>])[1] }

Ids(rows) == [i \in 1..Len(rows) |-> rows[i].id]

\* the data of a response, whichever helper built it
DataOf(response) == response.data

\* the pagination fields of a response: paginateWithCursor returns them
\* beside the data, the other helpers under "pagination"
PaginationOf(response) ==
  IF "pagination" \in DOMAIN response THEN response.pagination ELSE response

\* the outcome o of call c becomes the state
Returns(c, o) ==
  /\ call' = c
  /\ stmt' = o.stmt
  /\ IF o.ok
       THEN /\ cpc' = "paged"
            /\ fetched' = o.fetched
            /\ page' = o.response
            /\ trail' = (IF c.followed THEN trail ELSE << >>)
                          \o Ids(DataOf(o.response))
       ELSE /\ cpc' = "failed"
            /\ fetched' = None
            /\ page' = None
            /\ trail' = IF c.followed THEN trail ELSE << >>
  /\ UNCHANGED << pageVars, serviceVars >>

\* the outcomes of call c on the rows
Outcomes(rows, c) ==
  CASE c.helper = "paginate" ->
         paginate(rows, "users", c.cursorField, c.options)
    [] c.helper = "paginateQuery" ->
         paginateQuery(rows, c.query, c.options, c.cursorField)
    [] c.helper = "paginateWithCursor" ->
         paginateWithCursor(rows, "users", c.cursorField, c.options.cursor,
                            c.options.limit, c.direction)

\* GET /users?<query> served by parseQueryParams and paginate
Paginate(query) ==
  /\ cpc = "idle"
  /\ LET c == [ helper |-> "paginate", params |-> query,
                options |-> parseQueryParams(query),
                query |-> None, cursorField |-> "id",
                direction |-> "forward", followed |-> FALSE ]
     IN  \E o \in Outcomes(db.users, c) : Returns(c, o)

\* GET /users?<query> served by parseQueryParams and paginateQuery
PaginateQuery(query, base) ==
  /\ cpc = "idle"
  /\ LET c == [ helper |-> "paginateQuery", params |-> query,
                options |-> parseQueryParams(query),
                query |-> base, cursorField |-> "id",
                direction |-> "forward", followed |-> FALSE ]
     IN  \E o \in Outcomes(db.users, c) : Returns(c, o)

\* a call of paginateWithCursor
PaginateWithCursor(cursorColumn, cursor, limit, direction) ==
  /\ cpc = "idle"
  /\ LET c == [ helper |-> "paginateWithCursor", params |-> << >>,
                options |-> [ limit |-> limit, cursor |-> cursor,
                              sort |-> Undefined, filters |-> << >> ],
                query |-> None, cursorField |-> cursorColumn,
                direction |-> direction, followed |-> FALSE ]
     IN  \E o \in Outcomes(db.users, c) : Returns(c, o)

\* the client asks for the next page: the same call with the nextCursor of
\* the page it holds
NextPage ==
  /\ cpc = "paged"
  /\ call.direction = "forward"
  /\ call.cursorField = "id"
  /\ ~ PaginationOf(page).nextCursor.null
  /\ Len(trail) < MaxTrail
  /\ LET c == [ call EXCEPT !.options.cursor = PaginationOf(page).nextCursor,
                            !.followed = TRUE ]
     IN  \E o \in Outcomes(db.users, c) : Returns(c, o)

\* the client stops
CursorDone ==
  /\ cpc \in {"paged", "failed"}
  /\ cpc' = "idle"
  /\ call' = None
  /\ stmt' = None
  /\ fetched' = None
  /\ page' = None
  /\ trail' = << >>
  /\ UNCHANGED << pageVars, serviceVars >>

InitCursor ==
  /\ db \in [users : SUBSET UserRows, orders : {{}}]
  /\ mount = << >>
  /\ pc = "idle"
  /\ req = None
  /\ options = None
  /\ heap = None
  /\ countSql = None
  /\ total = None
  /\ envelope = None
  /\ writes = 0
  /\ cpc = "idle"
  /\ call = None
  /\ stmt = None
  /\ fetched = None
  /\ page = None
  /\ trail = << >>
  /\ config = queryEngineConfig
  /\ calls = << >>
  /\ thrown = None
  /\ ServicesIdle

NextCursor ==
  \/ \E query \in CursorQueries : Paginate(query)
  \/ \E query \in CursorQueries : \E base \in BaseQueries :
       PaginateQuery(query, base)
  \/ \E a \in CursorArguments : \E limit \in CursorLimits :
       \E direction \in {"forward", "backward"} :
         PaginateWithCursor(a[1], a[2], limit, direction)
  \/ NextPage
  \/ CursorDone

SpecCursor == InitCursor /\ [][NextCursor]_vars

(***************************************************************************)
(* Properties of cursor pagination.                                        *)
(***************************************************************************)
Paged == cpc = "paged"

\* x <= y on numbers; false when either is NaN
NumLeq(x, y) == ~ x.nan /\ ~ y.nan /\ ~ NumLess(y, x)

\* C13: every cursor helper asks the storage for limit+1 rows, returns at
\* most limit of them, and (forward) reports hasNextPage exactly when the
\* extra, (limit+1)-th row was fetched.
C13_FetchesOneExtraRow ==
  Paged
  => LET limit == PaginationOf(page).limit
         extra == NumAdd(limit, Num(1))
     IN  /\ stmt.limit = << extra >>
         /\ NumLeq(Num(Len(fetched)), extra)
         /\ NumLeq(Num(Len(DataOf(page))), limit)
         /\ call.direction = "forward"
              => (PaginationOf(page).hasNextPage
                    <=> Num(Len(fetched)) = extra)


\* a forward traversal by paginate that began without a cursor
TraversalFromStart ==
  /\ Paged
  /\ call.helper = "paginate"
  /\ Get(call.params, "cursor").null

\* the rows the filters of the call select
Filtered == Matching(db.users, FilterConditions(call.options.filters))

\* C14: following nextCursor from the first page of paginate until it is
\* null, on an unchanged table with a unique cursor column, returns every
\* row matching the filters exactly once: none skipped, none repeated,
\* whatever sortBy and order the query carries.
C14_TraversalReturnsEachRowOnce ==
  TraversalFromStart
  => /\ \A i, j \in 1..Len(trail) : i # j => trail[i] # trail[j]
     /\ \A i \in 1..Len(trail) : \E r \in Filtered : r.id = trail[i]
     /\ PaginationOf(page).nextCursor.null
          => \A r \in Filtered : \E i \in 1..Len(trail) : trail[i] = r.id

\* C15: in buildPaginatedResponse and paginateWithCursor, nextCursor is the
\* cursor-column value (as text) of the last returned row when hasMore and
\* the direction is forward, and null otherwise; forward, nextCursor is
\* non-null exactly when hasNextPage is true.
C15_NextCursorIsLastRowsValue ==
  (Paged /\ call.helper \in {"paginate", "paginateWithCursor"})
  => LET data == DataOf(page)
         hasMore == Len(fetched) > Len(data)
         nextCursor == PaginationOf(page).nextCursor
     IN  /\ nextCursor =
              IF hasMore /\ call.direction = "forward"
                THEN Text(StringOfProperty(data[Len(data)], call.cursorField))
                ELSE Null
         /\ call.direction = "forward"
              => (~ nextCursor.null <=> PaginationOf(page).hasNextPage)

\* C16: parseQueryParams yields an integer limit in [1, 100]: 10 when the
\* parameter is absent or not a number, 1 for values below 1, 100 for
\* values above 100.
C16_ParsedLimitInRange ==
  (call # None /\ call.helper \in {"paginate", "paginateQuery"})
  => LET given == Get(call.params, "limit")
         limit == call.options.limit
         value == Number(given.value)
     IN  /\ IsInteger(limit) /\ limit.n >= 1 /\ limit.n <= 100
         /\ (~ Truthy(given) \/ value.nan) => limit = Num(10)
         /\ (Truthy(given) /\ NumLess(value, Num(1))) => limit = Num(1)
         /\ (Truthy(given) /\ NumLess(Num(100), value)) => limit = Num(100)


\* C17: queryParser + runQuery are deterministic: on an unchanged dataset
\* every run of the request returns the envelope this run returned (the
\* same data in the same order, the same total, hasNextPage, hasPrevPage),
\* also without ordering, with an unknown ordering field, and with ties in
\* the sort column.
C17_SameRequestSameEnvelope ==
  (Returned /\ writes = 0)
  => \A e \in EnvelopesOf(db[req.table], req.table,
                          queryParser(req.path, req.params)) :
       e = envelope


\* C18: when the count or the page fetch of runQuery fails, the request
\* fails with that very error: no storage call follows the failed one (no
\* retry), no envelope is returned, and the repository's caller receives
\* the error of the failed call.
C18_StorageFailurePropagates ==
  Served
  => /\ Len(calls) <= 2
     /\ \A i \in 1..Len(calls) :
          calls[i].call = (IF i = 1 THEN "count" ELSE "fetch")
     /\ \A i \in 1..(Len(calls) - 1) : calls[i].error = None
     /\ calls[Len(calls)].error # None
          => /\ pc = "failed"
             /\ envelope = None
             /\ thrown = calls[Len(calls)].error
     /\ envelope # None => \A i \in 1..Len(calls) : calls[i].error = None

\* the count succeeded on a table with rows and the page fetch failed
C18_Witness ==
  /\ pc = "failed"
  /\ total # None
  /\ db[req.table] # {}
  /\ thrown = StorageFailure("fetch")
  /\ envelope = None

\* total, and with it hasNextPage, describe the rows the statement selects
\* from the table as it is when the page has been read
Agrees ==
  LET selected == Cardinality(Matching(db[req.table], countSql.where))
      shown == NumAdd(OffsetOf(options.fromPage, options.limit),
                      Num(Len(envelope.data)))
  IN  /\ envelope.pagination.total = Num(selected)
      /\ envelope.pagination.hasNextPage = NumLess(shown, Num(selected))

\* C19: the count and the page fetch are two reads with no transaction
\* around them: an envelope whose total or hasNextPage disagrees with the
\* table from which data was read can be returned, and is returned only
\* when a write was committed between the two reads.
C19_DisagreementByWriteBetween ==
  Returned => (Agrees \/ writes > 0)

\* a row was inserted between the reads: offset + len(data) > total
C19_Witness ==
  /\ Returned
  /\ writes > 0
  /\ ValidWindow(options)
  /\ NumLess(envelope.pagination.total,
             NumAdd(OffsetOf(options.fromPage, options.limit),
                    Num(Len(envelope.data))))

\* C20: no request-time operation modifies queryEngineConfig: after any
\* sequence of requests the configuration is the one of process start.
C20_ConfigNeverModified ==
  config = queryEngineConfig

\* a request with a filter and an ordering of its own was served from the
\* resource configuration
C20_Witness ==
  /\ Returned
  /\ options.resourceConfig = config.resources[req.table]
  /\ options.filters # << >>
  /\ options.ordering # config.resources[req.table].defaultOrdering
  /\ heap[BaseRef].where # NoClause
  /\ heap[BaseRef].orderBy # NoClause

(***************************************************************************)
(* The user service: UserEntity, EntityConverter.fromRow, UserRepository   *)
(* on the users table, and UserService (specification SpecUsers).          *)
(*                                                                         *)
(* A call of the service runs in two steps, one per awaited repository     *)
(* call: the lookup with the code that follows it up to the next await,    *)
(* and the write.  Calls interleave between the steps.  The table enforces *)
(* its primary key and the unique constraint on email.                     *)
(***************************************************************************)
\* calls of the service that one behaviour starts
MaxCalls == 2
\* the times `new Date()` takes after process start
MaxClock == 1

Whitespace == {" ", "\t"}

RECURSIVE TrimStart(_)
TrimStart(s) ==
  IF s # EmptyStr /\ Head(s) \in Whitespace THEN TrimStart(Tail(s)) ELSE s

RECURSIVE TrimEnd(_)
TrimEnd(s) ==
  IF s # EmptyStr /\ s[Len(s)] \in Whitespace
  THEN TrimEnd(SubSeq(s, 1, Len(s) - 1))
  ELSE s

\* String.prototype.trim
Trim(s) == TrimEnd(TrimStart(s))

\* new Error(message)
Error(message) == [message |-> message]

\* new AppError(message, status, code)
AppError(message, status, code) ==
  [message |-> message, status |-> status, code |-> code]

AppErrorConflict(message, code) == AppError(message, 409, code)
AppErrorNotFound(message, code) == AppError(message, 404, code)

\* the error with which the table rejects an insert that breaks a constraint
ConstraintViolation(constraint) == [constraint |-> constraint]

\* what a synchronous call yields: it throws, or it returns a value
Throws(e) == [threw |-> e, value |-> None]
Yields(v) == [threw |-> None, value |-> v]

\* UserEntity.create(email, name, id), with `new Date()` giving date
UserEntityCreate(email, name, id, date) ==
  [id |-> id, email |-> email, name |-> name, createdAt |-> date,
   updatedAt |-> date]

\* a variant of updateName without the guard on the trimmed name
updateNameUnguarded(self, newName, date) ==
  [threw |-> None,
   value |-> [id |-> self.id, email |-> self.email, name |-> newName,
              createdAt |-> self.createdAt, updatedAt |-> date],
   self |-> self]

\* self.updateName(newName), with `new Date()` giving date: what the call
\* throws or returns, and the receiver after the call
updateName(self, newName, date) ==
  IF Trim(newName) = EmptyStr
  THEN [threw |-> Error("Name cannot be empty"), value |-> None,
        self |-> self]
  ELSE [threw |-> None,
        value |-> [id |-> self.id, email |-> self.email, name |-> newName,
                   createdAt |-> self.createdAt, updatedAt |-> date],
        self |-> self]

\* haystack.includes(needle)
Includes(haystack, needle) ==
  \E i \in 1..(Len(haystack) - Len(needle) + 1) :
    SubSeq(haystack, i, i + Len(needle) - 1) = needle

\* the constructor parameters of UserEntity, as fromRow reads them off the
\* class text, each with the JavaScript type the column is selected as
UserEntityParams ==
  << [name |-> "id", letters |-> <<"i", "d">>, type |-> "string"],
     [name |-> "email", letters |-> <<"e", "m", "a", "i", "l">>,
      type |-> "string"],
     [name |-> "name", letters |-> <<"n", "a", "m", "e">>, type |-> "string"],
     [name |-> "createdAt",
      letters |-> <<"c", "r", "e", "a", "t", "e", "d", "A", "t">>,
      type |-> "Date"],
     [name |-> "updatedAt",
      letters |-> <<"u", "p", "d", "a", "t", "e", "d", "A", "t">>,
      type |-> "Date"] >>

\* String(new Date(text)) for a text that is no date
InvalidDate == << "Invalid Date" >>

\* new Date(value): a copy of a Date; no text of the tables parses as a date
NewDate(type, value) == IF type = "Date" THEN value ELSE InvalidDate

\* the truthiness of a column value: a Date and an array are objects, a
\* text is truthy unless it is empty
TruthyValue(type, value) == type \in {"Date", "object"} \/ value # EmptyStr

\* a variant of fromRow that passes every column value on as it is
fromRowAsIs(params, row) ==
  [name \in { params[i].name : i \in 1..Len(params) } |-> row[name]]

\* EntityConverter.fromRow(EntityClass, row): the constructor arguments in
\* the order of params; a truthy value of a parameter whose lower-cased name
\* includes "at" is passed through new Date
fromRow(params, row) ==
  [name \in { params[i].name : i \in 1..Len(params) } |->
     LET p == CHOOSE q \in { params[i] : i \in 1..Len(params) } :
                q.name = name
     IN  IF /\ Includes(ToLowerCase(p.letters), <<"a", "t">>)
            /\ TruthyValue(p.type, row[name])
         THEN NewDate(p.type, row[name])
         ELSE row[name]]

\* UserRepository.findById: select ... where id = $1 limit 1
UserRepository_findById(rows, id) ==
  LET result == { r \in rows : r.id = id }
  IN  IF result # {}
      THEN fromRow(UserEntityParams, CHOOSE r \in result : TRUE)
      ELSE None

\* UserRepository.findByEmail: select ... where email = $1 limit 1
UserRepository_findByEmail(rows, email) ==
  LET result == { r \in rows : r.email = email }
  IN  IF result # {}
      THEN fromRow(UserEntityParams, CHOOSE r \in result : TRUE)
      ELSE None

\* a variant of the users table without the unique constraint on email
UsersConstraintsKeyOnly(rows, row) ==
  IF \E r \in rows : r.id = row.id THEN ConstraintViolation("users_pkey")
  ELSE None

\* the constraint of the users table that inserting row would break
UsersConstraints(rows, row) ==
  IF \E r \in rows : r.id = row.id THEN ConstraintViolation("users_pkey")
  ELSE IF \E r \in rows : r.email = row.email
  THEN ConstraintViolation("users_email_unique")
  ELSE None

\* UserRepository.createUser: insert into users values (...)
UserRepository_createUser(rows, user) ==
  IF UsersConstraints(rows, user) # None
  THEN [threw |-> UsersConstraints(rows, user), rows |-> rows]
  ELSE [threw |-> None,
        rows |-> rows \cup { [id |-> user.id, email |-> user.email,
                              name |-> user.name,
                              createdAt |-> user.createdAt,
                              updatedAt |-> user.updatedAt] }]

\* UserRepository.updateUser: update users set name, updated_at where id
UserRepository_updateUser(rows, user) ==
  { IF r.id = user.id
    THEN [r EXCEPT !.name = user.name, !.updatedAt = user.updatedAt]
    ELSE r : r \in rows }

\* UserRepository.deleteUser: delete from users where id
UserRepository_deleteUser(rows, id) == { r \in rows : r.id # id }

\* a variant of getUserById that returns whatever the repository found
getUserByIdUnchecked(user) == Yields(user)

\* UserService.getUserById after the repository answered with user
getUserById(user) ==
  IF user = None
  THEN Throws(AppErrorNotFound("User not found", "user_not_found"))
  ELSE Yields(user)

(***************************************************************************)
(* The calls of the user service.                                          *)
(***************************************************************************)
Emails == { <<"x">>, <<"y">> }
\* the names updateUser is called with
Names == { EmptyStr, <<" ">>, <<" ", "b">> }
\* the ids nanoid() draws, and the ids requests name
NanoIds == { <<"n", "1">>, <<"n", "2">> }

Void == [void |-> TRUE]

\* the user the table may hold at process start
StoredUser ==
  [id |-> <<"n", "1">>, email |-> <<"x">>, name |-> <<"j", "o">>,
   createdAt |-> 0, updatedAt |-> 0]

\* the call c settles: it rejects with e, or resolves with v
Settle(c, repo, e, v) ==
  [ucalls EXCEPT ![c].pc = "done", ![c].repo = repo, ![c].threw = e,
                 ![c].returned = v]

\* a request handler calls the service
StartCall(op, id, email, name) ==
  /\ Len(ucalls) < MaxCalls
  /\ ucalls' = Append(ucalls,
       [op |-> op, id |-> id, email |-> email, name |-> name, pc |-> "find",
        found |-> None, user |-> None, entity |-> None, repo |-> << >>,
        threw |-> None, returned |-> None])
  /\ UNCHANGED << users, now >>
  /\ UNCHANGED notUserVars

\* a variant of createUser without the conflict check
CreateUserLookupUnchecked(c, userId) ==
  /\ c \in 1..Len(ucalls)
  /\ ucalls[c].pc = "find"
  /\ ucalls[c].op = "createUser"
  /\ LET existingUser == UserRepository_findByEmail(users, ucalls[c].email)
         repo == Append(ucalls[c].repo, "findByEmail")
         user == UserEntityCreate(ucalls[c].email, ucalls[c].name, userId,
                                  now)
     IN  ucalls' = [ucalls EXCEPT ![c].pc = "write", ![c].repo = repo,
                                  ![c].found = existingUser,
                                  ![c].entity = user]
  /\ UNCHANGED << users, now >>
  /\ UNCHANGED notUserVars

\* createUser up to its insert: findByEmail, the conflict check, nanoid()
\* and UserEntity.create
CreateUserLookup(c, userId) ==
  /\ c \in 1..Len(ucalls)
  /\ ucalls[c].pc = "find"
  /\ ucalls[c].op = "createUser"
  /\ LET existingUser == UserRepository_findByEmail(users, ucalls[c].email)
         repo == Append(ucalls[c].repo, "findByEmail")
         user == UserEntityCreate(ucalls[c].email, ucalls[c].name, userId,
                                  now)
     IN  IF existingUser # None
         THEN ucalls' =
                [Settle(c, repo,
                        AppErrorConflict(
                          "A user with this email already exists",
                          "email_exists"),
                        None)
                   EXCEPT ![c].found = existingUser]
         ELSE ucalls' = [ucalls EXCEPT ![c].pc = "write", ![c].repo = repo,
                                       ![c].entity = user]
  /\ UNCHANGED << users, now >>
  /\ UNCHANGED notUserVars

\* getUserById, and updateUser and deleteUser up to their write
UserLookup(c) ==
  /\ c \in 1..Len(ucalls)
  /\ ucalls[c].pc = "find"
  /\ ucalls[c].op \in {"getUserById", "updateUser", "deleteUser"}
  /\ LET found == UserRepository_findById(users, ucalls[c].id)
         got == getUserById(found)
         repo == Append(ucalls[c].repo, "findById")
         asked == [ucalls EXCEPT ![c].found = found]
     IN  IF got.threw # None
         THEN ucalls' = [Settle(c, repo, got.threw, None)
                           EXCEPT ![c].found = found]
         ELSE IF ucalls[c].op = "getUserById"
         THEN ucalls' = [Settle(c, repo, None, got.value)
                           EXCEPT ![c].found = found]
         ELSE IF got.value = None
         THEN \* user.updateName, user.id: a property read of null throws
              ucalls' = [Settle(c, repo, Error("TypeError"), None)
                           EXCEPT ![c].found = found]
         ELSE IF ucalls[c].op = "deleteUser"
         THEN ucalls' = [asked EXCEPT ![c].pc = "write", ![c].repo = repo,
                                      ![c].user = got.value,
                                      ![c].entity = got.value]
         ELSE LET updatedUser == updateName(got.value, ucalls[c].name, now)
              IN  IF updatedUser.threw # None
                  THEN ucalls' =
                         [Settle(c, Append(repo, "updateName"),
                                 updatedUser.threw, None)
                            EXCEPT ![c].found = found,
                                   ![c].user = updatedUser.self]
                  ELSE ucalls' =
                         [asked EXCEPT ![c].pc = "write",
                                       ![c].repo = Append(repo, "updateName"),
                                       ![c].user = updatedUser.self,
                                       ![c].entity = updatedUser.value]
  /\ UNCHANGED << users, now >>
  /\ UNCHANGED notUserVars

\* the repository method a call awaits
Awaited(c) ==
  IF ucalls[c].pc = "find"
  THEN (IF ucalls[c].op = "createUser" THEN "findByEmail" ELSE "findById")
  ELSE ucalls[c].op

\* the awaited write of createUser, updateUser or deleteUser
UserWrite(c) ==
  /\ c \in 1..Len(ucalls)
  /\ ucalls[c].pc = "write"
  /\ LET repo == Append(ucalls[c].repo, Awaited(c))
         user == ucalls[c].entity
     IN  CASE ucalls[c].op = "createUser" ->
                LET inserted == UserRepository_createUser(users, user)
                IN  /\ users' = inserted.rows
                    /\ ucalls' =
                         IF inserted.threw # None
                         THEN Settle(c, repo, inserted.threw, None)
                         ELSE Settle(c, repo, None, user)
           [] ucalls[c].op = "updateUser" ->
                /\ users' = UserRepository_updateUser(users, user)
                /\ ucalls' = Settle(c, repo, None, user)
           [] ucalls[c].op = "deleteUser" ->
                /\ users' = UserRepository_deleteUser(users, user.id)
                /\ ucalls' = Settle(c, repo, None, Void)
  /\ UNCHANGED now
  /\ UNCHANGED notUserVars

\* the awaited repository call rejects: the connection to the database is
\* lost, and the rejection leaves the service method
UserRepositoryFails(c) ==
  /\ c \in 1..Len(ucalls)
  /\ ucalls[c].pc \in {"find", "write"}
  /\ ucalls' = Settle(c, Append(ucalls[c].repo, Awaited(c)),
                      StorageFailure(Awaited(c)), None)
  /\ UNCHANGED << users, now >>
  /\ UNCHANGED notUserVars

\* time passes
Tick ==
  /\ now < MaxClock
  /\ now' = now + 1
  /\ UNCHANGED << engineVars, userVars, orderVars, entityVars, shutdownVars >>

InitUsers ==
  /\ EngineIdle
  /\ config = queryEngineConfig
  /\ users \in { {}, { StoredUser } }
  /\ ucalls = << >>
  /\ now = 0
  /\ OrdersIdle
  /\ EntityIdle
  /\ ShutdownIdle

NextUsers ==
  \/ \E email \in Emails, name \in {<<"b">>} :
       StartCall("createUser", EmptyStr, email, name)
  \/ \E id \in NanoIds : StartCall("getUserById", id, EmptyStr, EmptyStr)
  \/ \E id \in NanoIds, name \in Names :
       StartCall("updateUser", id, EmptyStr, name)
  \/ \E id \in NanoIds : StartCall("deleteUser", id, EmptyStr, EmptyStr)
  \/ \E c \in 1..MaxCalls, userId \in NanoIds : CreateUserLookup(c, userId)
  \/ \E c \in 1..MaxCalls : UserLookup(c)
  \/ \E c \in 1..MaxCalls : UserWrite(c)
  \/ \E c \in 1..MaxCalls : UserRepositoryFails(c)
  \/ Tick

SpecUsers == InitUsers /\ [][NextUsers]_vars

(***************************************************************************)
(* OrderEntity, and the calls made on one order in memory (specification   *)
(* SpecOrderEntity).  Each call is made on the order as the last           *)
(* successful call left it.                                                *)
(***************************************************************************)
\* calls of create, confirm and ship that one behaviour makes
MaxEntityCalls == 4

\* the members of OrderStatus that the entity uses
OrderStatus ==
  [PENDING |-> << "PENDING" >>, CONFIRMED |-> << "CONFIRMED" >>,
   SHIPPED |-> << "SHIPPED" >>]

RECURSIVE ItemsTotal(_, _)
\* items.reduce((sum, item) => sum + item.price * item.quantity, 0)
ItemsTotal(items, sum) ==
  IF items = << >> THEN sum
  ELSE ItemsTotal(Tail(items), sum + Head(items).price * Head(items).quantity)

\* OrderEntity.create(userId, items), with crypto.randomUUID() giving id and
\* `new Date()` giving date
OrderEntityCreate(userId, items, id, date) ==
  IF Len(items) = 0
  THEN Throws(Error("Order must have at least one item"))
  ELSE Yields([id |-> id, userId |-> userId, items |-> items,
               status |-> OrderStatus.PENDING,
               total |-> ItemsTotal(items, 0), createdAt |-> date,
               updatedAt |-> date])

\* a variant of confirm without the guard on the status
confirmUnguarded(self, date) ==
  Yields([id |-> self.id, userId |-> self.userId, items |-> self.items,
          status |-> OrderStatus.CONFIRMED, total |-> self.total,
          createdAt |-> self.createdAt, updatedAt |-> date])

\* self.confirm(), with `new Date()` giving date
confirm(self, date) ==
  IF self.status # OrderStatus.PENDING
  THEN Throws(Error("Only pending orders can be confirmed"))
  ELSE Yields([id |-> self.id, userId |-> self.userId, items |-> self.items,
               status |-> OrderStatus.CONFIRMED, total |-> self.total,
               createdAt |-> self.createdAt, updatedAt |-> date])

\* self.ship(), with `new Date()` giving date
ship(self, date) ==
  IF self.status # OrderStatus.CONFIRMED
  THEN Throws(Error("Only confirmed orders can be shipped"))
  ELSE Yields([id |-> self.id, userId |-> self.userId, items |-> self.items,
               status |-> OrderStatus.SHIPPED, total |-> self.total,
               createdAt |-> self.createdAt, updatedAt |-> date])

Item(quantity, price) ==
  [productId |-> << "p" >>, productName |-> << "w" >>,
   quantity |-> quantity, price |-> price]

\* the item lists of the requests: none, one item, two items, and an item
\* with quantity 0
ItemLists ==
  { << >>, << Item(3, 2) >>, << Item(1, 1), Item(2, 2) >>, << Item(0, 1) >> }

\* the ids crypto.randomUUID() draws, and the ids requests name
Uuids == { << "o", "1" >>, << "o", "2" >>, << "o", "3" >> }

\* the call of a method on the order: the entity is replaced when the call
\* returns one, and stays when the call throws
EntityCall(method, outcome) ==
  /\ Len(etrace) < MaxEntityCalls
  /\ etrace' = Append(etrace, [method |-> method, self |-> entity,
                               threw |-> outcome.threw,
                               value |-> outcome.value])
  /\ entity' = IF outcome.threw = None THEN outcome.value ELSE entity
  /\ UNCHANGED now
  /\ UNCHANGED notEntityVars

\* OrderEntity.create(userId, items)
Create(userId, items, id) ==
  /\ entity = None
  /\ EntityCall("create", OrderEntityCreate(userId, items, id, now))

\* order.confirm()
Confirm ==
  /\ entity # None
  /\ EntityCall("confirm", confirm(entity, now))

\* order.ship()
Ship ==
  /\ entity # None
  /\ EntityCall("ship", ship(entity, now))

InitOrderEntity ==
  /\ EngineIdle
  /\ config = queryEngineConfig
  /\ ServicesIdle

NextOrderEntity ==
  \/ \E userId \in NanoIds, items \in ItemLists, id \in Uuids :
       Create(userId, items, id)
  \/ Confirm
  \/ Ship
  \/ Tick

SpecOrderEntity == InitOrderEntity /\ [][NextOrderEntity]_vars

(***************************************************************************)
(* The order service: OrderRepository on the orders table and OrderService *)
(* (specification SpecOrders).  A call runs one step per awaited statement *)
(* of the repository: the lookup with the code that follows it, the        *)
(* findById of save, and the insert or update of save.                     *)
(***************************************************************************)
\* calls of the order service that one behaviour starts
MaxOrderCalls == 3

\* the constructor parameters of OrderEntity, as fromRow reads them off the
\* class text, each with the JavaScript type the column is selected as
OrderEntityParams ==
  << [name |-> "id", letters |-> <<"i", "d">>, type |-> "string"],
     [name |-> "userId", letters |-> <<"u", "s", "e", "r", "I", "d">>,
      type |-> "string"],
     [name |-> "items", letters |-> <<"i", "t", "e", "m", "s">>,
      type |-> "object"],
     [name |-> "status", letters |-> <<"s", "t", "a", "t", "u", "s">>,
      type |-> "string"],
     [name |-> "total", letters |-> <<"t", "o", "t", "a", "l">>,
      type |-> "string"],
     [name |-> "createdAt",
      letters |-> <<"c", "r", "e", "a", "t", "e", "d", "A", "t">>,
      type |-> "Date"],
     [name |-> "updatedAt",
      letters |-> <<"u", "p", "d", "a", "t", "e", "d", "A", "t">>,
      type |-> "Date"] >>

\* order.total.toString() as the decimal(10, 2) column holds it: the total
\* of an entity built by create is a number, the total of an entity built
\* from a row is the text of the column
TotalText(type, t) ==
  IF type = "number" THEN DecimalText(t) \o << ".", "0", "0" >> ELSE t

\* OrderRepository.findById: select ... where id = $1
OrderRepository_findById(rows, id) ==
  LET result == { r \in rows : r.id = id }
  IN  IF result # {}
      THEN fromRow(OrderEntityParams, CHOOSE r \in result : TRUE)
      ELSE None

\* the constraint of the orders table that inserting row would break
OrdersConstraints(rows, userRows, row) ==
  IF \E r \in rows : r.id = row.id THEN ConstraintViolation("orders_pkey")
  ELSE IF ~\E u \in userRows : u.id = row.userId
  THEN ConstraintViolation("orders_user_id_users_id_fk")
  ELSE None

\* OrderRepository.createOrder: insert into orders values (...)
OrderRepository_createOrder(rows, userRows, order, type) ==
  LET row == [id |-> order.id, userId |-> order.userId,
              items |-> order.items, status |-> order.status,
              total |-> TotalText(type, order.total),
              createdAt |-> order.createdAt, updatedAt |-> order.updatedAt]
  IN  IF OrdersConstraints(rows, userRows, row) # None
      THEN [threw |-> OrdersConstraints(rows, userRows, row), rows |-> rows]
      ELSE [threw |-> None, rows |-> rows \cup { row }]

\* OrderRepository.updateOrder: update orders set items, status, total,
\* updated_at where id
OrderRepository_updateOrder(rows, order, type) ==
  { IF r.id = order.id
    THEN [r EXCEPT !.items = order.items, !.status = order.status,
                   !.total = TotalText(type, order.total),
                   !.updatedAt = order.updatedAt]
    ELSE r : r \in rows }

\* OrderDomainService.validateOrderItems(items)
validateOrderItems(items) ==
  /\ Len(items) > 0
  /\ \A i \in 1..Len(items) :
       /\ items[i].quantity > 0
       /\ items[i].price > 0
       /\ Trim(items[i].productId) # EmptyStr
       /\ Trim(items[i].productName) # EmptyStr

\* OrderService.getOrderById after the repository answered with order
getOrderById(order) ==
  IF order = None THEN Throws(Error("Order not found")) ELSE Yields(order)

\* the order the table may hold at process start, by status
StoredOrder(status) ==
  [id |-> << "o", "1" >>, userId |-> << "n", "1" >>,
   items |-> << Item(3, 2) >>, status |-> status,
   total |-> << "6", ".", "0", "0" >>, createdAt |-> 0, updatedAt |-> 0]

\* the call c settles: it rejects with e, or resolves with v
SettleOrder(c, repo, e, v) ==
  [ocalls EXCEPT ![c].pc = "done", ![c].repo = repo, ![c].threw = e,
                 ![c].returned = v]

\* a request handler calls the service
StartOrderCall(op, id, userId, items) ==
  /\ Len(ocalls) < MaxOrderCalls
  /\ ocalls' = Append(ocalls,
       [op |-> op, id |-> id, userId |-> userId, items |-> items,
        pc |-> "find", found |-> None, entity |-> None, repo |-> << >>,
        threw |-> None, returned |-> None])
  /\ UNCHANGED << users, orders, now >>
  /\ UNCHANGED notOrderVars

\* the ids of the orders that exist, stored or in memory
KnownUuids ==
  { r.id : r \in orders } \cup
  { ocalls[c].entity.id :
      c \in { k \in 1..Len(ocalls) : ocalls[k].entity # None } }

\* createOrder up to its save: the lookup of the user, validateOrderItems
\* and OrderEntity.create with a fresh id
CreateOrderLookup(c, id) ==
  /\ c \in 1..Len(ocalls)
  /\ ocalls[c].pc = "find"
  /\ ocalls[c].op = "createOrder"
  /\ id \notin KnownUuids
  /\ LET user == UserRepository_findById(users, ocalls[c].userId)
         repo == Append(ocalls[c].repo, "userRepository.findById")
         order == OrderEntityCreate(ocalls[c].userId, ocalls[c].items, id,
                                    now)
     IN  IF user = None
         THEN ocalls' = SettleOrder(c, repo, Error("User not found"), None)
         ELSE IF ~validateOrderItems(ocalls[c].items)
         THEN ocalls' =
                SettleOrder(c, repo, Error("Invalid order items"), None)
         ELSE IF order.threw # None
         THEN ocalls' = SettleOrder(c, repo, order.threw, None)
         ELSE ocalls' = [ocalls EXCEPT ![c].pc = "save", ![c].repo = repo,
                                       ![c].entity = order.value]
  /\ UNCHANGED << users, orders, now >>
  /\ UNCHANGED notOrderVars

\* confirmOrder and shipOrder up to their save: getOrderById, and confirm
\* or ship on the entity it returned
OrderLookup(c) ==
  /\ c \in 1..Len(ocalls)
  /\ ocalls[c].pc = "find"
  /\ ocalls[c].op \in {"confirmOrder", "shipOrder"}
  /\ LET found == OrderRepository_findById(orders, ocalls[c].id)
         got == getOrderById(found)
         repo == Append(ocalls[c].repo, "findById")
     IN  IF got.threw # None
         THEN ocalls' = SettleOrder(c, repo, got.threw, None)
         ELSE LET moved == IF ocalls[c].op = "confirmOrder"
                           THEN confirm(got.value, now)
                           ELSE ship(got.value, now)
              IN  IF moved.threw # None
                  THEN ocalls' = [SettleOrder(c, repo, moved.threw, None)
                                    EXCEPT ![c].found = found]
                  ELSE ocalls' = [ocalls EXCEPT ![c].pc = "save",
                                                ![c].repo = repo,
                                                ![c].found = found,
                                                ![c].entity = moved.value]
  /\ UNCHANGED << users, orders, now >>
  /\ UNCHANGED notOrderVars

\* save up to its write: existingOrder = await this.findById(order.id)
SaveLookup(c) ==
  /\ c \in 1..Len(ocalls)
  /\ ocalls[c].pc = "save"
  /\ LET existingOrder ==
           OrderRepository_findById(orders, ocalls[c].entity.id)
     IN  ocalls' = [ocalls EXCEPT
                      ![c].pc = IF existingOrder # None THEN "update"
                                ELSE "insert",
                      ![c].repo = Append(ocalls[c].repo, "save.findById")]
  /\ UNCHANGED << users, orders, now >>
  /\ UNCHANGED notOrderVars

\* the write of save: updateOrder or createOrder
SaveWrite(c) ==
  /\ c \in 1..Len(ocalls)
  /\ ocalls[c].pc \in {"update", "insert"}
  /\ LET order == ocalls[c].entity
         type == IF ocalls[c].op = "createOrder" THEN "number" ELSE "string"
     IN  IF ocalls[c].pc = "update"
         THEN /\ orders' = OrderRepository_updateOrder(orders, order, type)
              /\ ocalls' = SettleOrder(c, Append(ocalls[c].repo,
                                                 "updateOrder"),
                                       None, order)
         ELSE LET inserted ==
                    OrderRepository_createOrder(orders, users, order, type)
              IN  /\ orders' = inserted.rows
                  /\ ocalls' =
                       SettleOrder(c, Append(ocalls[c].repo, "createOrder"),
                                   inserted.threw,
                                   IF inserted.threw # None THEN None
                                   ELSE order)
  /\ UNCHANGED << users, now >>
  /\ UNCHANGED notOrderVars

\* the awaited repository call rejects: the connection to the database is
\* lost, and the rejection leaves the service method
OrderRepositoryFails(c) ==
  /\ c \in 1..Len(ocalls)
  /\ ocalls[c].pc \in {"find", "save", "update", "insert"}
  /\ ocalls' = SettleOrder(c, ocalls[c].repo,
                           StorageFailure(ocalls[c].pc), None)
  /\ UNCHANGED << users, orders, now >>
  /\ UNCHANGED notOrderVars

\* the bodies of the createOrder requests: a stored user with valid items,
\* an unknown user, and a stored user with an item of quantity 0
CreateOrderDtos ==
  { [userId |-> << "n", "1" >>, items |-> << Item(3, 2) >>],
    [userId |-> << "n", "2" >>, items |-> << Item(3, 2) >>],
    [userId |-> << "n", "1" >>, items |-> << Item(0, 1) >>] }

InitOrders ==
  /\ EngineIdle
  /\ config = queryEngineConfig
  /\ users = { StoredUser }
  /\ ucalls = << >>
  /\ now = 0
  /\ \E status \in { OrderStatus.PENDING, OrderStatus.CONFIRMED,
                     OrderStatus.SHIPPED } :
       orders = { StoredOrder(status) }
  /\ ocalls = << >>
  /\ EntityIdle
  /\ ShutdownIdle

NextOrders ==
  \/ \E id \in { << "o", "1" >>, << "o", "2" >> } :
       StartOrderCall("confirmOrder", id, EmptyStr, << >>)
  \/ StartOrderCall("shipOrder", << "o", "1" >>, EmptyStr, << >>)
  \/ \E dto \in CreateOrderDtos :
       StartOrderCall("createOrder", EmptyStr, dto.userId, dto.items)
  \/ \E c \in 1..MaxOrderCalls, id \in Uuids : CreateOrderLookup(c, id)
  \/ \E c \in 1..MaxOrderCalls : OrderLookup(c)
  \/ \E c \in 1..MaxOrderCalls : SaveLookup(c)
  \/ \E c \in 1..MaxOrderCalls : SaveWrite(c)
  \/ \E c \in 1..MaxOrderCalls : OrderRepositoryFails(c)

SpecOrders == InitOrders /\ [][NextOrders]_vars

(***************************************************************************)
(* The older variant of runQuery, with one builder: simplePaginate fetches *)
(* the page first and then counts `query.limit(1).offset(0)`               *)
(* (specification SpecLegacy).  Its applyFilters and applySorting are      *)
(* those of the current variant.                                           *)
(***************************************************************************)
\* runQuery up to simplePaginate: the filters and the ordering on the one
\* builder
legacyRunQueryBuild(table, opts) ==
  LET query == BaseRef
      h0 == [r \in {BaseRef} |-> NewBuilder(table)]
      h1 == IF HasConfig(opts, "filterConfig")
              THEN applyFilters(h0, query, opts.filters,
                                opts.resourceConfig.filterConfig)
              ELSE h0
  IN  IF HasConfig(opts, "sortConfig")
        THEN applySorting(h1, query, opts.ordering,
                          opts.resourceConfig.sortConfig,
                          opts.resourceConfig.defaultOrdering)
        ELSE h1

\* totalCount[0]?.count || 0: the driver returns count(*) as a text, and a
\* non-empty text is truthy
legacyTotal(count) == DecimalText(count)

\* the envelope of the older simplePaginate
legacyEnvelope(results, opts, tot) ==
  [ data |-> results,
    pagination |->
      [ fromPage |-> opts.fromPage,
        toPage |-> opts.toPage,
        limit |-> opts.limit,
        total |-> tot,
        hasNextPage |-> ~ opts.limit.nan /\ Num(Len(results)) = opts.limit,
        hasPrevPage |-> NumLess(Num(1), opts.fromPage) ] ]

\* GET <mount>/<route>?<params> up to and including the page fetch
LegacyRequest(route, params) ==
  /\ pc = "idle"
  /\ LET path == mount \o << route >>
         opts == queryParser(path, params)
         h == LimitOffset(legacyRunQueryBuild(route, opts), BaseRef,
                          opts.limit, OffsetOf(opts.fromPage, opts.limit))
     IN  \E r \in SelectOutcomes(db[route], h[BaseRef]) :
           /\ r.ok
           /\ req' = [path |-> path, params |-> params, table |-> route]
           /\ options' = opts
           /\ heap' = h
           /\ envelope' = [data |-> r.rows, pagination |-> None]
  /\ pc' = "fetched"
  /\ writes' = 0
  /\ calls' = << [call |-> "fetch", error |-> None] >>
  /\ UNCHANGED << db, mount, countSql, total, config, thrown >>
  /\ UNCHANGED << cursorVars, serviceVars >>

\* the same request when the storage fails the page fetch
LegacyFetchFails(route, params) ==
  /\ pc = "idle"
  /\ LET path == mount \o << route >>
         opts == queryParser(path, params)
     IN  /\ req' = [path |-> path, params |-> params, table |-> route]
         /\ options' = opts
         /\ heap' = LimitOffset(legacyRunQueryBuild(route, opts), BaseRef,
                                opts.limit,
                                OffsetOf(opts.fromPage, opts.limit))
  /\ pc' = "failed"
  /\ writes' = 0
  /\ calls' = << [call |-> "fetch", error |-> StorageFailure("fetch")] >>
  /\ thrown' = StorageFailure("fetch")
  /\ UNCHANGED << db, mount, countSql, total, envelope, config >>
  /\ UNCHANGED << cursorVars, serviceVars >>

\* a variant that counts the statement before any limit is set on it
LegacyCountUnlimited ==
  /\ pc = "fetched"
  /\ LET counted == [heap[BaseRef] EXCEPT !.limit = NoClause,
                                          !.offset = NoClause]
     IN  \E c \in CountOutcomes(db[req.table], counted) :
           /\ c.ok
           /\ countSql' = counted
           /\ total' = legacyTotal(c.count)
           /\ envelope' = legacyEnvelope(envelope.data, options,
                                         legacyTotal(c.count))
  /\ pc' = "done"
  /\ calls' = Append(calls, [call |-> "count", error |-> None])
  /\ UNCHANGED << db, mount, req, options, heap, writes, config, thrown >>
  /\ UNCHANGED << cursorVars, serviceVars >>

\* the rest of simplePaginate: limit(1).offset(0) on the builder that was
\* fetched, the count of that statement, and the envelope
LegacyCount ==
  /\ pc = "fetched"
  /\ LET h == LimitOffset(heap, BaseRef, Num(1), Num(0))
         counted == Subquery(h, BaseRef)
     IN  \E c \in CountOutcomes(db[req.table], counted) :
           /\ c.ok
           /\ heap' = h
           /\ countSql' = counted
           /\ total' = legacyTotal(c.count)
           /\ envelope' = legacyEnvelope(envelope.data, options,
                                         legacyTotal(c.count))
  /\ pc' = "done"
  /\ calls' = Append(calls, [call |-> "count", error |-> None])
  /\ UNCHANGED << db, mount, req, options, writes, config, thrown >>
  /\ UNCHANGED << cursorVars, serviceVars >>

\* the storage fails the count
LegacyCountFails ==
  /\ pc = "fetched"
  /\ pc' = "failed"
  /\ calls' = Append(calls,
                     [call |-> "count", error |-> StorageFailure("count")])
  /\ thrown' = StorageFailure("count")
  /\ UNCHANGED << db, mount, req, options, heap, countSql, total, envelope,
                  writes, config >>
  /\ UNCHANGED << cursorVars, serviceVars >>

NextLegacy ==
  \/ \E route \in Routes : \E params \in QueryParams(route) :
       LegacyRequest(route, params)
  \/ \E route \in Routes : \E params \in QueryParams(route) :
       LegacyFetchFails(route, params)
  \/ LegacyCount
  \/ LegacyCountFails
  \/ Respond

SpecLegacy == Init /\ [][NextLegacy]_vars

(***************************************************************************)
(* QueryBuilder: applyFilters on a builder made by QueryBuilder.from, with *)
(* a filter configuration made by createFilterConfigs (specification       *)
(* SpecBuilder).  A filter value is any JavaScript value: null, undefined, *)
(* a text, or an array of texts.                                           *)
(***************************************************************************)
NullValue == [type |-> "null", text |-> EmptyStr, items |-> << >>]
UndefinedValue == [type |-> "undefined", text |-> EmptyStr, items |-> << >>]
StringValue(text) == [type |-> "string", text |-> text, items |-> << >>]
ArrayValue(items) == [type |-> "array", text |-> EmptyStr, items |-> items]

RECURSIVE JoinComma(_)
\* items.join(",")
JoinComma(items) ==
  IF items = << >> THEN EmptyStr
  ELSE IF Len(items) = 1 THEN items[1]
  ELSE items[1] \o << "," >> \o JoinComma(Tail(items))

\* `${value}` for a value that is neither null nor undefined
TemplateText(value) ==
  IF value.type = "array" THEN JoinComma(value.items) ELSE value.text

\* createFilterConfigs([{ table, fields, operator }, ...]): one entry per
\* field, keyed by the field
createFilterConfigs(configs) ==
  [field \in UNION { c.fields : c \in configs } |->
     LET c == CHOOSE x \in configs : field \in x.fields
     IN  [table |-> c.table, field |-> field, operator |-> c.operator]]

\* a filter configuration that uses every operator of FilterConfig but lte
BuilderFilterConfig ==
  createFilterConfigs(
    { [table |-> "orders", fields |-> {"status"}, operator |-> "eq"],
      [table |-> "orders", fields |-> {"userId"}, operator |-> "like"],
      [table |-> "orders", fields |-> {"createdAt"}, operator |-> "gte"],
      [table |-> "orders", fields |-> {"id"}, operator |-> "in"],
      [table |-> "orders", fields |-> {"total"}, operator |-> "between"] })

\* the identifier sql is used by applyFilters and is not imported
ReferenceError(message) == [name |-> "ReferenceError", message |-> message]

\* a variant of the switch without the Array.isArray checks
QueryBuilderEntryUnchecked(h, ref, cfg, value) ==
  CASE cfg.operator = "eq" ->
         [threw |-> None,
          heap |-> Where(h, ref, [column |-> cfg.field, operator |-> "eq",
                                  operand |-> value])]
    [] cfg.operator = "like" ->
         [threw |-> None,
          heap |-> Where(h, ref,
                         [column |-> cfg.field, operator |-> "like",
                          operand |-> StringValue(<< "%" >>
                                                  \o TemplateText(value)
                                                  \o << "%" >>)])]
    [] cfg.operator \in {"gte", "lte"} ->
         [threw |-> None,
          heap |-> Where(h, ref, [column |-> cfg.field,
                                  operator |-> cfg.operator,
                                  operand |-> value])]
    [] cfg.operator \in {"in", "between"} ->
         [threw |-> ReferenceError("sql is not defined"), heap |-> h]

\* the switch of applyFilters for one entry whose key is configured and
\* whose value is neither null, undefined nor '': what it throws, and the
\* builders after it
QueryBuilderEntry(h, ref, cfg, value) ==
  CASE cfg.operator = "eq" ->
         [threw |-> None,
          heap |-> Where(h, ref, [column |-> cfg.field, operator |-> "eq",
                                  operand |-> value])]
    [] cfg.operator = "like" ->
         [threw |-> None,
          heap |-> Where(h, ref,
                         [column |-> cfg.field, operator |-> "like",
                          operand |-> StringValue(<< "%" >>
                                                  \o TemplateText(value)
                                                  \o << "%" >>)])]
    [] cfg.operator \in {"gte", "lte"} ->
         [threw |-> None,
          heap |-> Where(h, ref, [column |-> cfg.field,
                                  operator |-> cfg.operator,
                                  operand |-> value])]
    [] cfg.operator = "in" ->
         IF value.type = "array"
         THEN [threw |-> ReferenceError("sql is not defined"), heap |-> h]
         ELSE [threw |-> None, heap |-> h]
    [] cfg.operator = "between" ->
         IF value.type = "array" /\ Len(value.items) = 2
         THEN [threw |-> ReferenceError("sql is not defined"), heap |-> h]
         ELSE [threw |-> None, heap |-> h]

RECURSIVE QueryBuilder_applyFilters(_, _, _, _, _)
\* QueryBuilder.applyFilters(filters) from entry i on; a throw ends the loop
QueryBuilder_applyFilters(h, ref, filters, filterConfig, i) ==
  IF i > Len(filters) THEN [threw |-> None, heap |-> h]
  ELSE LET key == filters[i].key
           value == filters[i].value
       IN  IF \/ key \notin DOMAIN filterConfig
              \/ value.type \in {"null", "undefined"}
              \/ (value.type = "string" /\ value.text = EmptyStr)
           THEN QueryBuilder_applyFilters(h, ref, filters, filterConfig,
                                          i + 1)
           ELSE LET done == QueryBuilderEntry(h, ref, filterConfig[key],
                                              value)
                IN  IF done.threw # None THEN done
                    ELSE QueryBuilder_applyFilters(done.heap, ref, filters,
                                                   filterConfig, i + 1)

\* the values of the filters objects of the model
BuilderValues ==
  { NullValue, UndefinedValue, StringValue(EmptyStr),
    StringValue(<< "PENDING" >>), ArrayValue(<< >>),
    ArrayValue(<< << "5" >> >>), ArrayValue(<< << "5" >>, << "6" >> >>) }

BuilderKeys == {"status", "userId", "id", "total", "foo"}

\* the filters objects with at most MaxFilters keys, as entry lists
BuilderFilters ==
  UNION { { f \in [1..n -> [key : BuilderKeys, value : BuilderValues]] :
              \A i, j \in 1..n : i # j => f[i].key # f[j].key } :
          n \in 0..MaxFilters }

\* QueryBuilder.from(baseQuery, filterConfig, ...).applyFilters(filters)
BuildQuery(filters) ==
  /\ pc = "idle"
  /\ LET base == [r \in {BaseRef} |-> NewBuilder("orders")]
         built == QueryBuilder_applyFilters(base, BaseRef, filters,
                                            BuilderFilterConfig, 1)
     IN  /\ req' = [filters |-> filters, base |-> base]
         /\ heap' = built.heap
         /\ thrown' = built.threw
         /\ pc' = IF built.threw = None THEN "done" ELSE "failed"
  /\ UNCHANGED << db, mount, options, countSql, total, envelope, writes,
                  config, calls >>
  /\ UNCHANGED << cursorVars, serviceVars >>

InitBuilder ==
  /\ EngineIdle
  /\ config = queryEngineConfig
  /\ ServicesIdle

NextBuilder ==
  \/ \E filters \in BuilderFilters : BuildQuery(filters)
  \/ Respond

SpecBuilder == InitBuilder /\ [][NextBuilder]_vars

(***************************************************************************)
(* The server entry point: gracefulShutdown and the SIGTERM and SIGINT     *)
(* handlers (specification SpecShutdown).  The process has one thread: a   *)
(* step runs from a signal, a settled promise, a callback or a timer to    *)
(* the next await or return.                                               *)
(***************************************************************************)
MaxSignals == 3

\* server.close(callback) inside its try: when it throws, the timer is
\* cleared and the process exits with 1; otherwise the function returns and
\* the callback is pending.  tr is what the sequence did so far.
closeServer(tr, throws) ==
  IF throws
  THEN [shutdownTimer |-> "cleared", spc |-> "returned",
        exitCode |-> << 1 >>,
        strace |-> tr \o << "close", "close threw" >>]
  ELSE [shutdownTimer |-> "armed", spc |-> "closing",
        exitCode |-> << >>,
        strace |-> tr \o << "close" >>]

\* a variant of the handler without the isShuttingDown guard
gracefulShutdownUnguarded(signal) ==
  /\ exitCode = << >>
  /\ Len(signals) < MaxSignals
  /\ signals' = Append(signals, signal)
  /\ isShuttingDown' = TRUE
  /\ \E resolved \in BOOLEAN :
       IF resolved
       THEN /\ shutdownTimer' = "armed"
            /\ spc' = "disconnecting"
            /\ strace' = strace \o << "start", "disconnect" >>
            /\ UNCHANGED exitCode
       ELSE \E throws \in BOOLEAN :
              LET after == closeServer(strace \o << "start", "disconnect",
                                                    "disconnect failed" >>,
                                       throws)
              IN  /\ shutdownTimer' = after.shutdownTimer
                  /\ spc' = after.spc
                  /\ exitCode' = after.exitCode
                  /\ strace' = after.strace
  /\ UNCHANGED notShutdownVars

\* a SIGTERM or SIGINT arrives and its handler calls gracefulShutdown,
\* which runs to its await: nothing when the flag is set; otherwise the
\* flag is set, the timer is armed, and the connection is resolved and asked
\* to disconnect.  When resolving the connection throws, the catch block and
\* the call of server.close run in the same step.
gracefulShutdown(signal) ==
  /\ exitCode = << >>
  /\ Len(signals) < MaxSignals
  /\ signals' = Append(signals, signal)
  /\ IF isShuttingDown
     THEN UNCHANGED << isShuttingDown, shutdownTimer, spc, exitCode,
                       strace >>
     ELSE /\ isShuttingDown' = TRUE
          /\ \E resolved \in BOOLEAN :
               IF resolved
               THEN /\ shutdownTimer' = "armed"
                    /\ spc' = "disconnecting"
                    /\ strace' = strace \o << "start", "disconnect" >>
                    /\ UNCHANGED exitCode
               ELSE \E throws \in BOOLEAN :
                      LET after ==
                            closeServer(strace \o << "start", "disconnect",
                                                     "disconnect failed" >>,
                                        throws)
                      IN  /\ shutdownTimer' = after.shutdownTimer
                          /\ spc' = after.spc
                          /\ exitCode' = after.exitCode
                          /\ strace' = after.strace
  /\ UNCHANGED notShutdownVars

\* the promise of dbConnection.disconnect() settles: a rejection is caught
\* and logged, and either way server.close is called
disconnectSettles(fulfilled) ==
  /\ exitCode = << >>
  /\ spc = "disconnecting"
  /\ \E throws \in BOOLEAN :
       LET after ==
             closeServer(strace \o (IF fulfilled
                                    THEN << "disconnected" >>
                                    ELSE << "disconnect failed" >>),
                         throws)
       IN  /\ shutdownTimer' = after.shutdownTimer
           /\ spc' = after.spc
           /\ exitCode' = after.exitCode
           /\ strace' = after.strace
  /\ UNCHANGED << isShuttingDown, signals >>
  /\ UNCHANGED notShutdownVars

\* the callback of server.close: the server has closed
serverClosed ==
  /\ exitCode = << >>
  /\ spc = "closing"
  /\ shutdownTimer' = "cleared"
  /\ spc' = "closed"
  /\ exitCode' = << 0 >>
  /\ strace' = Append(strace, "closed")
  /\ UNCHANGED << isShuttingDown, signals >>
  /\ UNCHANGED notShutdownVars

\* the callback of setTimeout, 10 seconds after the timer was armed
shutdownTimeout ==
  /\ exitCode = << >>
  /\ shutdownTimer = "armed"
  /\ shutdownTimer' = "fired"
  /\ exitCode' = << 1 >>
  /\ strace' = Append(strace, "timeout")
  /\ UNCHANGED << isShuttingDown, spc, signals >>
  /\ UNCHANGED notShutdownVars

InitShutdown ==
  /\ EngineIdle
  /\ config = queryEngineConfig
  /\ ServicesIdle

NextShutdown ==
  \/ \E signal \in {"SIGTERM", "SIGINT"} : gracefulShutdown(signal)
  \/ \E fulfilled \in BOOLEAN : disconnectSettles(fulfilled)
  \/ serverClosed
  \/ shutdownTimeout

\* The event loop runs the callback of a timer that is due: an armed timer
\* fires unless it is cleared or the process exits first.  The promise of
\* the disconnect and the close of the server are not bound to happen: the
\* pool and the open connections of the server decide.
SpecShutdown ==
  InitShutdown /\ [][NextShutdown]_vars /\ WF_vars(shutdownTimeout)

(***************************************************************************)
(* Claims about the user service.                                          *)
(***************************************************************************)
\* the calls that have settled
SettledCalls == { c \in 1..Len(ucalls) : ucalls[c].pc = "done" }

EmailExists ==
  AppErrorConflict("A user with this email already exists", "email_exists")
UserNotFound == AppErrorNotFound("User not found", "user_not_found")

\* C21: a createUser whose findByEmail returned a user rejects with the
\* conflict error, and one whose findByEmail rejected rejects with that
\* error; in both cases no entity was created and findByEmail is the only
\* repository method the call invoked.
C21_CreateUserConflictWritesNothing ==
  \A c \in SettledCalls :
    ucalls[c].op = "createUser" =>
      /\ ucalls[c].found # None =>
           /\ ucalls[c].threw = EmailExists
           /\ ucalls[c].repo = << "findByEmail" >>
           /\ ucalls[c].entity = None
           /\ ucalls[c].returned = None
      /\ ucalls[c].repo = << "findByEmail" >> /\ ucalls[c].found = None =>
           /\ ucalls[c].threw = StorageFailure("findByEmail")
           /\ ucalls[c].entity = None
           /\ ucalls[c].returned = None

\* one createUser met a stored user and another one a failing findByEmail
C21_Witness ==
  \E c, d \in SettledCalls :
    /\ ucalls[c].op = "createUser"
    /\ ucalls[c].found # None
    /\ ucalls[c].threw = EmailExists
    /\ ucalls[d].op = "createUser"
    /\ ucalls[d].threw = StorageFailure("findByEmail")

\* C22: getUserById, updateUser and deleteUser whose findById resolved with
\* no user reject with 'User not found'; findById is the only repository
\* method they invoked, and updateName was not called.
C22_MissingUserRejectsWithoutWrite ==
  \A c \in SettledCalls :
    /\ ucalls[c].op \in {"getUserById", "updateUser", "deleteUser"}
    /\ ucalls[c].found = None
    /\ ucalls[c].threw # StorageFailure("findById")
    => /\ ucalls[c].threw = UserNotFound
       /\ ucalls[c].repo = << "findById" >>
       /\ ucalls[c].entity = None
       /\ ucalls[c].returned = None

\* an updateUser and a deleteUser of an id the table does not hold were
\* rejected
C22_Witness ==
  \E c, d \in SettledCalls :
    /\ ucalls[c].op = "updateUser"
    /\ ucalls[c].threw = UserNotFound
    /\ ucalls[d].op = "deleteUser"
    /\ ucalls[d].threw = UserNotFound

\* the calls in which updateName ran
Renamed ==
  { c \in 1..Len(ucalls) :
      ucalls[c].op = "updateUser" /\ ucalls[c].user # None }

\* C23: updateName leaves its receiver as it was; for a name that trims to
\* the empty string it throws 'Name cannot be empty' and returns nothing;
\* for any other name it returns an entity with that name whose id, email
\* and createdAt are the receiver's.
C23_UpdateNameFrame ==
  \A c \in Renamed :
    /\ ucalls[c].user = ucalls[c].found
    /\ IF Trim(ucalls[c].name) = EmptyStr
       THEN /\ ucalls[c].threw = Error("Name cannot be empty")
            /\ ucalls[c].entity = None
       ELSE /\ ucalls[c].entity # None
            /\ ucalls[c].entity =
                 [ucalls[c].found EXCEPT
                    !.name = ucalls[c].name,
                    !.updatedAt = ucalls[c].entity.updatedAt]

\* updateName threw for a whitespace-only name in one call and returned an
\* entity with a later updatedAt and an untrimmed name in another one
C23_Witness ==
  \E c, d \in Renamed :
    /\ ucalls[c].name = << " " >>
    /\ ucalls[c].threw = Error("Name cannot be empty")
    /\ ucalls[d].name = << " ", "b" >>
    /\ ucalls[d].entity # None
    /\ ucalls[d].entity.updatedAt > ucalls[d].found.updatedAt

\* the createUser calls with the email that resolved
Created(email) ==
  { c \in SettledCalls :
      /\ ucalls[c].op = "createUser"
      /\ ucalls[c].email = email
      /\ ucalls[c].threw = None }

\* no call has deleted a user
NothingDeleted ==
  \A c \in 1..Len(ucalls) :
    ~(ucalls[c].op = "deleteUser" /\ ucalls[c].pc = "done"
      /\ ucalls[c].threw = None)

\* C29: however concurrent createUser calls with the same email interleave,
\* the table never holds two users with that email, and, as long as no user
\* is deleted, at most one of the calls resolves.
C29_OneCreateUserPerEmail ==
  \A email \in Emails :
    /\ Cardinality({ r \in users : r.email = email }) <= 1
    /\ NothingDeleted => Cardinality(Created(email)) <= 1

\* two createUser calls with one email both found no user; the insert of one
\* resolved and the insert of the other broke the unique constraint
C29_Witness ==
  \E c, d \in SettledCalls :
    /\ ucalls[c].op = "createUser"
    /\ ucalls[d].op = "createUser"
    /\ ucalls[c].email = ucalls[d].email
    /\ ucalls[c].threw = None
    /\ ucalls[c].returned \in users
    /\ ucalls[d].threw = ConstraintViolation("users_email_unique")
    /\ ucalls[d].repo = << "findByEmail", "createUser" >>

(***************************************************************************)
(* Claims about the order entity.                                          *)
(***************************************************************************)
\* the status the order took with each successful call, in order
RECURSIVE StatusesTaken(_)
StatusesTaken(trace) ==
  IF trace = << >> THEN << >>
  ELSE IF Head(trace).threw = None
  THEN << Head(trace).value.status >> \o StatusesTaken(Tail(trace))
  ELSE StatusesTaken(Tail(trace))

Lifecycle ==
  << OrderStatus.PENDING, OrderStatus.CONFIRMED, OrderStatus.SHIPPED >>

\* the calls of confirm and ship in the trace
Transitions ==
  { i \in 1..Len(etrace) : etrace[i].method \in {"confirm", "ship"} }

\* C24: the statuses an order created by OrderEntity.create takes under any
\* sequence of confirm and ship calls are a prefix of PENDING, CONFIRMED,
\* SHIPPED; confirm succeeds exactly from PENDING and ship exactly from
\* CONFIRMED; a rejected call throws and returns no entity; a successful
\* call returns an entity that differs from the receiver in status and
\* updatedAt only.
C24_StatusesArePrefixOfLifecycle ==
  /\ StatusesTaken(etrace) =
       SubSeq(Lifecycle, 1, Len(StatusesTaken(etrace)))
  /\ \A i \in Transitions :
       LET e == etrace[i]
           from == IF e.method = "confirm" THEN OrderStatus.PENDING
                   ELSE OrderStatus.CONFIRMED
           to == IF e.method = "confirm" THEN OrderStatus.CONFIRMED
                 ELSE OrderStatus.SHIPPED
       IN  /\ (e.threw = None) <=> (e.self.status = from)
           /\ e.threw # None => e.value = None
           /\ e.threw = None =>
                e.value = [e.self EXCEPT !.status = to,
                                         !.updatedAt = e.value.updatedAt]

\* an order went through PENDING, CONFIRMED and SHIPPED, with a rejected
\* call on the way and a further rejected call once shipped
C24_Witness ==
  /\ Len(etrace) >= MaxEntityCalls
  /\ StatusesTaken(etrace) = Lifecycle
  /\ entity.status = OrderStatus.SHIPPED
  /\ entity.updatedAt > entity.createdAt
  /\ \E i \in Transitions : etrace[i].threw # None

(***************************************************************************)
(* Claims about the order service.                                         *)
(***************************************************************************)
\* the place of a status in the life of an order
Rank(status) ==
  CASE status = OrderStatus.PENDING -> 1
    [] status = OrderStatus.CONFIRMED -> 2
    [] status = OrderStatus.SHIPPED -> 3
    [] OTHER -> 0

C27_FirstPageHasNoPrevious ==
  (Paged /\ call.helper = "paginate" /\ call.options.cursor.null)
  => /\ ~ PaginationOf(page).hasPrevPage
     /\ PaginationOf(page).prevCursor = Null

(***************************************************************************)
(* Claims about the older variant of runQuery.                             *)
(***************************************************************************)
\* the rows that match the filters as the statement carries them
LegacyMatching == Matching(db[req.table], heap[BaseRef].where)

\* C26: the older runQuery counts a statement that already carries LIMIT 1,
\* so the total it reports is 1 when a row matches and 0 otherwise, never
\* more, and it reports hasNextPage as len(data) = limit, not from total.
C26_LegacyTotalIsAtMostOne ==
  Returned =>
    /\ envelope.pagination.total =
         DecimalText(Min(1, Cardinality(LegacyMatching)))
    /\ NumLeq(Number(envelope.pagination.total), Num(1))
    /\ countSql.limit = << Num(1) >>
    /\ envelope.pagination.hasNextPage
         <=> Num(Len(envelope.data)) = options.limit

\* three rows match, the page holds two of them, and total is "1";
\* hasNextPage is true although total does not exceed the page
C26_Witness ==
  /\ Returned
  /\ Cardinality(LegacyMatching) = 3
  /\ Len(envelope.data) = 2
  /\ envelope.pagination.total = << "1" >>
  /\ envelope.pagination.hasNextPage

(***************************************************************************)
(* Claims about QueryBuilder.                                              *)
(***************************************************************************)
\* the entry has a configured key and a value its operator does not take,
\* or a value that is null, undefined or ''
Mismatched(e) ==
  /\ e.key \in DOMAIN BuilderFilterConfig
  /\ \/ e.value.type \in {"null", "undefined"}
     \/ (e.value.type = "string" /\ e.value.text = EmptyStr)
     \/ /\ BuilderFilterConfig[e.key].operator = "in"
        /\ e.value.type # "array"
     \/ /\ BuilderFilterConfig[e.key].operator = "between"
        /\ ~(e.value.type = "array" /\ Len(e.value.items) = 2)

\* C28: QueryBuilder.applyFilters skips an `in` entry whose value is not an
\* array, a `between` entry whose value is not a 2-element array, and an
\* entry whose value is null, undefined or '': the query it builds and the
\* error it raises, if any, are those of the filters without these entries,
\* and when no other entry is left the query is the base query and no error
\* is raised.
C28_MismatchedEntriesAreSkipped ==
  pc \in {"done", "failed"} =>
    LET kept == SelectSeq(req.filters, LAMBDA e : ~ Mismatched(e))
        built == QueryBuilder_applyFilters(req.base, BaseRef, kept,
                                           BuilderFilterConfig, 1)
    IN  /\ heap = built.heap
        /\ thrown = built.threw
        /\ kept = << >> => (heap = req.base /\ thrown = None)

\* an `in` entry with a text and a `between` entry with a one-element array
\* were applied: the query is the base query and nothing was thrown
C28_Witness ==
  /\ pc = "done"
  /\ Len(req.filters) = 2
  /\ \E i, j \in 1..2 :
       /\ req.filters[i] = [key |-> "id",
                            value |-> StringValue(<< "PENDING" >>)]
       /\ req.filters[j] = [key |-> "total",
                            value |-> ArrayValue(<< << "5" >> >>)]
  /\ heap = req.base
  /\ thrown = None

(***************************************************************************)
(* Claims about the shutdown of the server.                                *)
(***************************************************************************)
\* how many times the shutdown sequence did ev
Times(ev) == Cardinality({ i \in DOMAIN strace : strace[i] = ev })

LastStep == strace[Len(strace)]

\* the sequence ran at most once, once exactly when a signal has arrived;
\* the disconnect comes before the close; a failed disconnect is followed by
\* the close; exit code 0 comes from the closed server, exit code 1 from a
\* throwing close or from the timer
ShutdownInOrder ==
  /\ Times("start") = (IF signals = << >> THEN 0 ELSE 1)
  /\ Times("disconnect") <= 1
  /\ Times("close") <= 1
  /\ isShuttingDown = (signals # << >>)
  /\ \A i \in DOMAIN strace :
       strace[i] = "close" => \E j \in 1..(i - 1) : strace[j] = "disconnect"
  /\ \A i \in DOMAIN strace :
       strace[i] = "disconnect failed" =>
         i < Len(strace) /\ strace[i + 1] = "close"
  /\ exitCode \in { << >>, << 0 >>, << 1 >> }
  /\ exitCode = << 0 >> =>
       /\ LastStep = "closed"
       /\ Times("close") = 1
       /\ Times("close threw") = 0
  /\ exitCode = << 1 >> => LastStep \in { "close threw", "timeout" }
  /\ exitCode = << >> =>
       \A i \in DOMAIN strace :
         strace[i] \notin { "closed", "close threw", "timeout" }

\* C30: the shutdown sequence runs at most once however many SIGTERM and
\* SIGINT signals arrive and in whatever order; the disconnect of the
\* database is attempted before the server is closed; the close is attempted
\* also when the disconnect fails; and once a signal has arrived the process
\* eventually exits, with 0 after the server has closed and with 1 when the
\* close throws or the timer fires first.
C30_ShutdownRunsOnceAndExits ==
  /\ [] ShutdownInOrder
  /\ (signals # << >>) ~> (exitCode # << >>)

\* two signals arrived, the disconnect failed, the server was closed all the
\* same and the process exited with 0
C30_Witness ==
  /\ Len(signals) >= 2
  /\ signals[1] # signals[2]
  /\ Times("start") = 1
  /\ Times("disconnect failed") = 1
  /\ exitCode = << 0 >>

====
